---- MODULE Spec2Model ----
(***************************************************************************)
(* Muscledle: the study-deck engine (lib/study.ts), the daily selector     *)
(* (lib/daily.ts), the guess panel (components/GuessPanel.tsx) and the     *)
(* page that drives them (app/muscle/page.tsx).                            *)
(***************************************************************************)
EXTENDS Integers, Sequences, FiniteSets, TLC

VARIABLES
    catalog,      \* data/muscles.json: sequence of [slug, region]
    clock,        \* position of "new Date()" on the time line (see UtcDate, NyDate)
    storageMode,  \* how window.localStorage behaves in this session
    studyRaw,     \* localStorage["muscledle.study.v2"]
    lastOp,       \* the operation that ran last
    argRegion,    \* the region argument of the last operation
    retProgress,  \* the StudyProgress returned by the last engine operation
    retSlug,      \* the value returned by the last currentStudySlug()
    retDeck,      \* the array returned by the last buildDeck()
    prevRaw,      \* studyRaw as it was when the last operation started
    resetRet,     \* what the last resetStudy() returned, Null when not tracked
    advances,     \* advanceStudy() calls since that resetStudy(), -1 when not tracked
    dailyRaw,     \* localStorage["muscledle.daily.progress"]
    page,         \* the React state of MusclePage, GuessPanel and MuscleViewer
    match,        \* the last call of isMatch: its input, entry and result
    calls         \* the callbacks GuessPanel emitted in its last step, in order

vars == <<catalog, clock, storageMode, studyRaw, lastOp, argRegion,
          retProgress, retSlug, retDeck, prevRaw, resetRet, advances,
          dailyRaw, page, match, calls>>

(***************************************************************************)
(* Bounds                                                                  *)
(***************************************************************************)
MaxCatalog == 3
MaxClock == 2
MaxAdvances == 5
MaxStored == 2
MaxAttempts == 2
MaxStudyAttempts == 1
MaxGuess == 3
MaxStats == 3

(***************************************************************************)
(* 32-bit words as <<high 16 bits, low 16 bits>>                           *)
(***************************************************************************)
W16 == 65536
W8 == 256

RECURSIVE BitXor(_, _, _)
BitXor(a, b, n) ==
    IF n = 0 THEN 0
    ELSE (((a % 2) + (b % 2)) % 2) + 2 * BitXor(a \div 2, b \div 2, n - 1)

RECURSIVE BitOr(_, _, _)
BitOr(a, b, n) ==
    IF n = 0 THEN 0
    ELSE (IF a % 2 = 1 \/ b % 2 = 1 THEN 1 ELSE 0)
         + 2 * BitOr(a \div 2, b \div 2, n - 1)

RECURSIVE Pow2(_)
Pow2(n) == IF n = 0 THEN 1 ELSE 2 * Pow2(n - 1)

ToUint32(n) == <<(n \div W16) % W16, n % W16>>
Xor32(a, b) == <<BitXor(a[1], b[1], 16), BitXor(a[2], b[2], 16)>>
Or32(a, b) == <<BitOr(a[1], b[1], 16), BitOr(a[2], b[2], 16)>>
Add32(a, b) ==
    <<(a[1] + b[1] + ((a[2] + b[2]) \div W16)) % W16, (a[2] + b[2]) % W16>>
\* a >>> n for 0 < n < 16
Shr32(a, n) ==
    <<a[1] \div Pow2(n), (a[2] \div Pow2(n)) + ((a[1] % Pow2(n)) * Pow2(16 - n))>>
\* x * y of two 16-bit halves, as a 32-bit word
Mul16(x, y) ==
    LET p1 == x * (y % W8)
        p2 == x * (y \div W8)
        low == p1 + ((p2 % W8) * W8)
    IN  <<(low \div W16) + (p2 \div W8), low % W16>>
\* Math.imul: the low 32 bits of the product
Imul32(a, b) ==
    LET ll == Mul16(a[2], b[2])
    IN  <<(ll[1] + Mul16(a[1], b[2])[2] + Mul16(a[2], b[1])[2]) % W16, ll[2]>>
\* n % m of a 32-bit word
Mod32(a, m) == (((a[1] % m) * (W16 % m)) + a[2]) % m

(***************************************************************************)
(* The clock.  The UTC day turns over before the New York day does, so the *)
(* time line alternates: both on day k, UTC on day k+1, both on day k+1 .. *)
(***************************************************************************)
Days == <<[y |-> 2024, m |-> 12, d |-> 30], [y |-> 2024, m |-> 12, d |-> 31],
          [y |-> 2025, m |-> 1, d |-> 1], [y |-> 2025, m |-> 1, d |-> 2],
          [y |-> 2025, m |-> 1, d |-> 3], [y |-> 2025, m |-> 1, d |-> 4]>>
UtcDate(c) == Days[((c + 1) \div 2) + 1]
NyDate(c) == Days[(c \div 2) + 1]

(***************************************************************************)
(* lib/study.ts: the deck                                                  *)
(***************************************************************************)
Regions == {"all", "upper", "lower"}
NoRegion == "undefined"
Tags == {NoRegion, "all", "upper", "lower", "Upper"}
SlugNames == <<"s1", "s2", "s3", "s4", "s5">>
Slugs == {SlugNames[i] : i \in 1..MaxCatalog}

\* String.prototype.toLowerCase on the region tags in use
toLowerCase(s) == IF s = "Upper" THEN "upper" ELSE s

getSlugsByRegion(list, region) ==
    IF region = "all" THEN [i \in 1..Len(list) |-> list[i].slug]
    ELSE LET Want(m) ==
                 toLowerCase(IF m.region = NoRegion THEN "all" ELSE m.region) = region
             kept == SelectSeq(list, Want)
         IN  [i \in 1..Len(kept) |-> kept[i].slug]

MulberryStep == <<27947, 31221>>   \* 0x6d2b79f5

\* One call of the closure mulberry32 returns: with t already stepped, the
\* 32-bit integer that rand() divides by 4294967296.
MulberryMix(t) ==
    LET r1 == Imul32(Xor32(t, Shr32(t, 15)), Or32(<<0, 1>>, t))
        r2 == Xor32(r1, Add32(r1, Imul32(Xor32(r1, Shr32(r1, 7)), Or32(<<0, 61>>, r1))))
    IN  Xor32(r2, Shr32(r2, 14))

RECURSIVE MulberryOutputs(_, _)
MulberryOutputs(t, n) ==
    IF n = 0 THEN <<>>
    ELSE <<MulberryMix(Add32(t, MulberryStep))>>
         \o MulberryOutputs(Add32(t, MulberryStep), n - 1)

\* mulberry32(seed): the values its first MaxCatalog calls return
mulberry32(seed) == MulberryOutputs(ToUint32(seed), MaxCatalog)

\* Math.floor((u / 4294967296) * n) for small n
FloorScale(u, n) == ((u[1] * n) + ((u[2] * n) \div W16)) \div W16

Swap(out, i, j) == [out EXCEPT ![i] = out[j], ![j] = out[i]]

\* The loop of seededShuffle; i and j are one more than in the source, and
\* k counts the calls of rand().
RECURSIVE ShuffleLoop(_, _, _, _)
ShuffleLoop(out, i, rand, k) ==
    IF i <= 1 THEN out
    ELSE ShuffleLoop(Swap(out, i, FloorScale(rand[k], i) + 1), i - 1, rand, k + 1)

RECURSIVE ShuffleLoopNoSwap(_, _, _, _)
ShuffleLoopNoSwap(out, i, rand, k) ==
    IF i <= 1 THEN out
    ELSE ShuffleLoopNoSwap([out EXCEPT ![i] = out[FloorScale(rand[k], i) + 1]],
                           i - 1, rand, k + 1)

\* A seed taken from the New York calendar date
nowSeedNy(c) == (NyDate(c).y * 10000) + (NyDate(c).m * 100) + NyDate(c).d

nowSeed(c) == (UtcDate(c).y * 10000) + (UtcDate(c).m * 100) + UtcDate(c).d

\* The generators of the dates on the time line, computed once
Generators == [seed \in {nowSeed(c) : c \in 0..(MaxClock + 1)} |-> mulberry32(seed)]

seededShuffleNoSwap(arr, seed) == ShuffleLoopNoSwap(arr, Len(arr), Generators[seed], 1)

seededShuffle(arr, seed) == ShuffleLoop(arr, Len(arr), Generators[seed], 1)

buildDeck(region) == seededShuffle(getSlugsByRegion(catalog, region), nowSeed(clock))

(***************************************************************************)
(* Catalogs: slugs are unique; entry i carries slug SlugNames[i].          *)
(***************************************************************************)
Catalogs ==
    UNION {[1..n -> Tags] : n \in 0..MaxCatalog}

CatalogOf(tags) == [i \in 1..Len(tags) |-> [slug |-> SlugNames[i], region |-> tags[i]]]

(***************************************************************************)
(* window.localStorage.  A stored value is what getItem returns and         *)
(* JSON.parse makes of it:                                                  *)
(*   absent   getItem returns null                                          *)
(*   empty    the empty string                                              *)
(*   badjson  JSON.parse throws                                             *)
(*   falsy    JSON null, 0, false or ""                                     *)
(*   scalar   any other JSON value that is not an object with fields        *)
(*   object   an object; each StudyProgress field has the right type or not *)
(***************************************************************************)
StorageModes == {"ok", "quota", "disabled", "nowindow"}
CanRead == storageMode \in {"ok", "quota"}
CanWrite == storageMode = "ok"

RawOf(kind) ==
    [kind |-> kind, orderIsArray |-> FALSE, order |-> <<>>,
     indexIsNumber |-> FALSE, index |-> 0,
     completedIsBoolean |-> FALSE, completed |-> FALSE,
     settings |-> "missing", region |-> NoRegion, extra |-> FALSE]
RawAbsent == RawOf("absent")

\* The value safeLoad and the page's state use for null
Null == [order |-> <<>>, index |-> 0, completed |-> FALSE, region |-> "null",
         extra |-> FALSE]
NoSlug == "null"

\* JSON.stringify of a StudyProgress
stringify(p) ==
    [kind |-> "object", orderIsArray |-> TRUE, order |-> p.order,
     indexIsNumber |-> TRUE, index |-> p.index,
     completedIsBoolean |-> TRUE, completed |-> p.completed,
     settings |-> "present", region |-> p.region, extra |-> p.extra]

\* JSON.parse(raw) as StudyProgress, for a raw value that passed validation
parse(raw) ==
    [order |-> raw.order, index |-> raw.index, completed |-> raw.completed,
     region |-> raw.region, extra |-> raw.extra]

safeLoadNoIndexCheck(raw) ==
    IF ~CanRead THEN Null
    ELSE IF raw.kind \in {"absent", "empty", "badjson", "falsy"} THEN Null
    ELSE IF \/ raw.kind # "object"
            \/ ~raw.orderIsArray
            \/ ~raw.completedIsBoolean
            \/ raw.settings # "present"
            \/ raw.region \notin Regions
         THEN Null
    ELSE parse(raw)

safeLoad(raw) ==
    IF storageMode = "nowindow" THEN Null
    ELSE IF storageMode = "disabled" THEN Null              \* getItem throws
    ELSE IF raw.kind \in {"absent", "empty"} THEN Null      \* !raw
    ELSE IF raw.kind = "badjson" THEN Null                  \* JSON.parse throws
    ELSE IF \/ raw.kind = "falsy"                           \* !parsed
            \/ raw.kind # "object"
            \/ ~raw.orderIsArray
            \/ ~raw.indexIsNumber
            \/ ~raw.completedIsBoolean
            \/ raw.settings # "present"
            \/ raw.region \notin Regions
         THEN Null
    ELSE parse(raw)

safeSave(raw, p) ==
    IF storageMode = "nowindow" THEN raw
    ELSE IF storageMode = "ok" THEN stringify(p)
    ELSE raw                                                \* setItem throws

(***************************************************************************)
(* lib/study.ts: the exported operations.  Each takes the stored value and *)
(* yields [ret, raw]: what it returns and the stored value it leaves.      *)
(***************************************************************************)
\* What an operation returns after safeSave(p)
Saved(raw, p) == [ret |-> p, raw |-> safeSave(raw, p)]

\* A fresh progress that is never marked completed
FreshProgressOpen(order, region) ==
    [order |-> order, index |-> 0, completed |-> FALSE,
     region |-> region, extra |-> FALSE]

\* { order, index: 0, completed: order.length === 0, settings: { region } }
FreshProgress(order, region) ==
    [order |-> order, index |-> 0, completed |-> Len(order) = 0,
     region |-> region, extra |-> FALSE]

\* resetStudy without the safeSave(p)
resetStudyUnsaved(raw, region) ==
    [ret |-> FreshProgress(buildDeck(region), region), raw |-> raw]

resetStudy(raw, region) == Saved(raw, FreshProgress(buildDeck(region), region))

\* if (existing) return existing; return resetStudy("all")
ExistingOrReset(raw, existing) ==
    IF existing # Null THEN [ret |-> existing, raw |-> raw]
    ELSE resetStudy(raw, "all")

loadStudy(raw) == ExistingOrReset(raw, safeLoad(raw))

setStudyRegionAlwaysRebuild(raw, region) ==
    Saved(loadStudy(raw).raw, FreshProgress(buildDeck(region), region))

KeepIndexFrom(l, region) ==
    IF l.ret.region = region THEN l
    ELSE Saved(l.raw, [order |-> buildDeck(region), index |-> l.ret.index,
                       completed |-> l.ret.completed, region |-> region,
                       extra |-> FALSE])

setStudyRegionKeepIndex(raw, region) == KeepIndexFrom(loadStudy(raw), region)

\* setStudyRegion after const cur = loadStudy()
\* setStudyRegion that returns the rebuilt deck without safeSave(updated)
SetRegionFromUnsaved(l, region) ==
    IF l.ret.region = region THEN l
    ELSE [ret |-> FreshProgress(buildDeck(region), region), raw |-> l.raw]

SetRegionFrom(l, region) ==
    IF l.ret.region = region THEN l
    ELSE Saved(l.raw, FreshProgress(buildDeck(region), region))

setStudyRegion(raw, region) == SetRegionFrom(loadStudy(raw), region)

Min(a, b) == IF a <= b THEN a ELSE b
Max(a, b) == IF a >= b THEN a ELSE b

NoClampFrom(l) ==
    IF l.ret.completed THEN l
    ELSE Saved(l.raw, [l.ret EXCEPT
                          !.index = l.ret.index + 1,
                          !.completed = (l.ret.index + 1) >= Len(l.ret.order)])

advanceStudyNoClamp(raw) == NoClampFrom(loadStudy(raw))

\* advanceStudy with completed evaluated against the clamped index
AdvancePostClampFrom(l) ==
    IF l.ret.completed THEN l
    ELSE Saved(l.raw, [l.ret EXCEPT
                          !.index = Min(l.ret.index + 1, Len(l.ret.order) - 1),
                          !.completed =
                              Min(l.ret.index + 1, Len(l.ret.order) - 1) + 1
                                  >= Len(l.ret.order)])

\* advanceStudy after const cur = loadStudy()
AdvanceFrom(l) ==
    IF l.ret.completed THEN l
    ELSE Saved(l.raw, [l.ret EXCEPT
                          !.index = Min(l.ret.index + 1, Len(l.ret.order) - 1),
                          !.completed = (l.ret.index + 1) >= Len(l.ret.order)])

advanceStudy(raw) == AdvanceFrom(loadStudy(raw))

\* order[index] ?? null, with the source's index counted from 0
At(order, index) ==
    IF index >= 0 /\ index < Len(order) THEN order[index + 1] ELSE NoSlug

\* currentStudySlug after const cur = loadStudy()
CurrentFrom(l) ==
    [ret |-> IF Len(l.ret.order) = 0 THEN NoSlug
             ELSE IF l.ret.completed THEN NoSlug
             ELSE At(l.ret.order, l.ret.index),
     raw |-> l.raw]

currentStudySlug(raw) == CurrentFrom(loadStudy(raw))

(***************************************************************************)
(* lib/daily.ts: the daily selector.  A date key is the sequence of the    *)
(* char codes of "YYYY-MM-DD"; "0" is 48 and "-" is 45.                    *)
(***************************************************************************)
Digits2(n) == <<48 + ((n \div 10) % 10), 48 + (n % 10)>>
Digits4(n) == Digits2(n \div 100) \o Digits2(n % 100)
FormatKey(day) ==
    Digits4(day.y) \o <<45>> \o Digits2(day.m) \o <<45>> \o Digits2(day.d)

\* dateKey("America/New_York") when new Date() is at position c
dateKey(c) == FormatKey(NyDate(c))

FnvOffset == <<33052, 40389>>      \* 0x811c9dc5
FnvPrime == <<256, 403>>           \* 0x01000193

\* One round with the multiplication before the XOR (FNV-1)
FnvRoundMultiplyFirst(h, code) == Xor32(Imul32(h, FnvPrime), <<0, code>>)

\* One round of FNV-1a: h ^= code; h = Math.imul(h, 0x01000193)
FnvRound(h, code) == Imul32(Xor32(h, <<0, code>>), FnvPrime)

\* h after the first n chars of key
RECURSIVE HashPrefix(_, _)
HashPrefix(key, n) ==
    IF n = 0 THEN FnvOffset
    ELSE CHOOSE w \in {FnvRound(h, key[n]) : h \in {HashPrefix(key, n - 1)}} : TRUE

hashDateKey(key) == HashPrefix(key, Len(key))

\* The hashes of the date keys of the time line, computed once
DateHashes == [c \in 0..(MaxClock + 1) |-> hashDateKey(dateKey(c))]

UnknownSlug == "unknown"

getDailyMuscleSlugUtc(c) ==
    IF Len(catalog) = 0 THEN UnknownSlug
    ELSE catalog[Mod32(hashDateKey(FormatKey(UtcDate(c))), Len(catalog)) + 1].slug

getDailyMuscleSlug(c) ==
    IF Len(catalog) = 0 THEN UnknownSlug
    ELSE catalog[Mod32(DateHashes[c], Len(catalog)) + 1].slug

(***************************************************************************)
(* app/muscle/page.tsx: the daily record and its storage key.  Stored      *)
(* values are classified as for the study key.                             *)
(***************************************************************************)
\* NY-local YYYY-MM-DD, computed by the page
nyDateKey(c) == FormatKey(NyDate(c))

\* typed: score and attempts are numbers and completed is a boolean; when it
\* is FALSE one of the three is missing or of another type, and the values
\* kept in the three fields stand for nothing
DailyRawOf(kind) ==
    [kind |-> kind, date |-> <<>>, slug |-> NoSlug, score |-> 0, attempts |-> 0,
     completed |-> FALSE, typed |-> TRUE]
DailyAbsent == DailyRawOf("absent")

\* null as a DailyPersist, and a parsed value that has none of the fields
NullDaily ==
    [date |-> <<>>, slug |-> NoSlug, score |-> 0, attempts |-> 0,
     completed |-> FALSE, typed |-> TRUE]
NoFields == [NullDaily EXCEPT !.slug = "undefined", !.typed = FALSE]

stringifyDaily(d) ==
    [kind |-> "object", date |-> d.date, slug |-> d.slug, score |-> d.score,
     attempts |-> d.attempts, completed |-> d.completed,
     typed |-> d.typed]

parseDaily(raw) ==
    [date |-> raw.date, slug |-> raw.slug, score |-> raw.score,
     attempts |-> raw.attempts, completed |-> raw.completed,
     typed |-> raw.typed]

\* JSON null, 0 and false come back as they are; the caller tests !existing
loadDaily(raw) ==
    IF ~CanRead THEN NullDaily                              \* getItem throws
    ELSE IF raw.kind \in {"absent", "empty"} THEN NullDaily \* !raw
    ELSE IF raw.kind = "badjson" THEN NullDaily             \* JSON.parse throws
    ELSE IF raw.kind = "falsy" THEN NullDaily
    ELSE IF raw.kind = "scalar" THEN NoFields
    ELSE parseDaily(raw)

\* A save that keeps completed when the stored record has it
saveDailyMerged(raw, d) ==
    IF CanWrite
    THEN stringifyDaily([d EXCEPT !.completed =
                                     d.completed \/ (raw.kind = "object" /\ raw.completed)])
    ELSE raw

saveDaily(raw, d) == IF CanWrite THEN stringifyDaily(d) ELSE raw

(***************************************************************************)
(* app/muscle/page.tsx with components/MuscleViewer.tsx and                *)
(* components/GuessPanel.tsx.  page holds the React state of the three     *)
(* components as of the last render; state that only drives the display    *)
(* (the text typed so far, the notice of missing models, the loading       *)
(* spinner) is left out.  A handler or effect is an operator of            *)
(*   r  the render whose closure it is: the values it reads, and           *)
(*   a  the pending state together with the two storage keys: what it      *)
(*      writes, and what the storage calls read.                           *)
(***************************************************************************)
Modes == {"daily", "study", "free"}

\* "/models/<base>.glb"
ModelPath(base) == [dir |-> "/models/", base |-> base, ext |-> ".glb"]
NoUrl == [dir |-> "", base |-> NoSlug, ext |-> ""]
pathToSlug(path) == path.base

\* public/models/manifest.json
ManifestFiles == <<ModelPath("s1"), ModelPath("skeleton"), ModelPath("s2")>>

\* useState initial values
InitialRender ==
    [mode |-> "study", currentSlug |-> NoSlug,
     studyStats |-> [score |-> 0, attempts |-> 0],
     dailyStats |-> NullDaily, region |-> "all",
     study |-> [order |-> <<>>, index |-> 0, completed |-> FALSE,
                region |-> "all", extra |-> FALSE],
     canReveal |-> TRUE, mounted |-> FALSE,
     status |-> "idle",
     list |-> <<>>, muscleUrl |-> NoUrl, lastUrl |-> NoUrl, fetch |-> "idle"]

World == page @@ [studyRaw |-> studyRaw, dailyRaw |-> dailyRaw]
PageOf(w) == [f \in DOMAIN InitialRender |-> w[f]]

\* ---- MuscleViewer ----
handleViewerChange(a, slug) == [a EXCEPT !.currentSlug = slug]

\* setLastUrl(path); setMuscleUrl(path); onChange(path, pathToSlug(path))
Show(a, path) ==
    handleViewerChange([a EXCEPT !.lastUrl = path, !.muscleUrl = path],
                       pathToSlug(path))

\* The values the do-while loop of pickRandom can end with
Candidates(pool, lastUrl) ==
    SelectSeq(pool, LAMBDA p : ~(Len(pool) > 1 /\ p = lastUrl))

\* The k-th of them is the one Math.random() draws
pickRandom(pool, lastUrl, a, k) ==
    IF Len(pool) = 0 THEN a
    ELSE Show(a, Candidates(pool, lastUrl)[((k - 1) % Len(Candidates(pool, lastUrl))) + 1])

\* list.find((p) => pathToSlug(p).toLowerCase() === want), as a sequence
Find(list, slug) ==
    SelectSeq(list, LAMBDA p : toLowerCase(pathToSlug(p)) = toLowerCase(slug))

ShowFound(a, hits) == IF Len(hits) = 0 THEN a ELSE Show(a, hits[1])

setBySlug(r, a, slug) ==
    IF Len(r.list) = 0 THEN a ELSE ShowFound(a, Find(r.list, slug))

\* The prop the page passes to the viewer
muscleSlug(r) == IF r.mode \in {"daily", "study"} THEN r.currentSlug ELSE NoSlug

\* useEffect(..., []): the request for the manifest goes out
ViewerFetchEffect(r, a) == [a EXCEPT !.fetch = "pending"]

\* useEffect(..., [muscleSlug, list.length])
ViewerSlugEffect(r, a) ==
    IF muscleSlug(r) # NoSlug /\ Len(r.list) > 0
    THEN setBySlug(r, a, muscleSlug(r))
    ELSE a

\* ---- GuessPanel ----
HasEntry(slug) == \E i \in 1..Len(catalog) : catalog[i].slug = slug

\* useEffect(..., [currentSlug])
PanelResetEffect(r, a) == [a EXCEPT !.status = "idle"]

panelReveal(r, a) ==
    IF ~HasEntry(r.currentSlug) THEN a
    ELSE [a EXCEPT !.status = IF a.status = "correct" THEN "correct"
                               ELSE "revealed"]

\* ---- MusclePage ----
isDailyLockedNever(r) == FALSE

isDailyLocked(r) == r.mode = "daily" /\ r.dailyStats.completed

InputDisabled(r) ==
    \/ isDailyLocked(r)
    \/ ~HasEntry(r.currentSlug)
    \/ r.status \in {"correct", "revealed"}

RevealDisabled(r) ==
    \/ r.currentSlug = NoSlug
    \/ ~r.canReveal
    \/ isDailyLocked(r)

\* setDailyStats(updated) with the record saved under the study key
SaveDailyStatsInStudyKey(a, updated) ==
    [a EXCEPT !.dailyStats = updated,
              !.studyRaw = IF CanWrite THEN RawOf("scalar") ELSE a.studyRaw]

\* setDailyStats(updated); saveDaily(updated)
SaveDailyStats(a, updated) ==
    [a EXCEPT !.dailyStats = updated, !.dailyRaw = saveDaily(a.dailyRaw, updated)]

\* setStudyStats((prev) => ({ ...prev, [field]: prev[field] + 1 }))
BumpStudy(a, field) ==
    [a EXCEPT !.studyStats[field] = a.studyStats[field] + 1]

\* onAttempt with the daily branch taken in every mode but study
onAttemptOutsideStudy(r, a) ==
    IF r.mode = "study" THEN BumpStudy(a, "attempts")
    ELSE IF r.dailyStats # NullDaily
    THEN SaveDailyStats(a, [r.dailyStats EXCEPT !.attempts = r.dailyStats.attempts + 1])
    ELSE a

onAttempt(r, a) ==
    IF r.mode = "study" THEN BumpStudy(a, "attempts")
    ELSE IF r.mode = "daily" /\ r.dailyStats # NullDaily
    THEN SaveDailyStats(a, [r.dailyStats EXCEPT !.attempts = r.dailyStats.attempts + 1])
    ELSE a

CountCorrect(r, a) ==
    IF r.mode = "study" THEN BumpStudy(a, "score")
    ELSE IF r.mode = "daily" /\ r.dailyStats # NullDaily
    THEN SaveDailyStats(a, [r.dailyStats EXCEPT !.score = r.dailyStats.score + 1,
                                                !.completed = TRUE])
    ELSE a

onCorrect(r, a) == [CountCorrect(r, a) EXCEPT !.canReveal = FALSE]

\* submit that calls onCorrect without onAttempt("correct")
submitWithoutAttempt(r, a, guess) ==
    IF ~HasEntry(r.currentSlug) THEN a
    ELSE IF r.status \in {"correct", "revealed"} THEN a
    ELSE IF guess = "empty" THEN a
    ELSE IF guess = "right"
    THEN onCorrect(r, [a EXCEPT !.status = "correct"])
    ELSE onAttempt(r, [a EXCEPT !.status = "wrong"])

\* GuessPanel.submit with a guess that is empty, wrong or right for the entry
submit(r, a, guess) ==
    IF ~HasEntry(r.currentSlug) THEN a
    ELSE IF r.status \in {"correct", "revealed"} THEN a
    ELSE IF guess = "empty" THEN a
    ELSE IF guess = "right"
    THEN onCorrect(r, onAttempt(r, [a EXCEPT !.status = "correct"]))
    ELSE onAttempt(r, [a EXCEPT !.status = "wrong"])

CountRevealAsAttempt(r, a) == onAttempt(r, a)

CountReveal(r, a) ==
    IF r.mode = "study" THEN BumpStudy(a, "attempts")
    ELSE IF r.mode = "daily" /\ r.dailyStats # NullDaily
    THEN SaveDailyStats(a, [r.dailyStats EXCEPT
                               !.attempts = r.dailyStats.attempts + 1,
                               !.completed = TRUE])
    ELSE a

reveal(r, a) ==
    IF ~r.canReveal THEN a
    ELSE [panelReveal(r, CountReveal(r, a)) EXCEPT !.canReveal = FALSE]

\* A call of the study engine that the page makes for its result c
Stored(a, c) == [a EXCEPT !.studyRaw = c.raw]
\* ... followed by setStudy(c.ret)
SetStudy(a, c) == [a EXCEPT !.study = c.ret, !.studyRaw = c.raw]

\* setCurrentSlug(slug); if (slug) viewerRef.current?.setBySlug(slug)
ShowSlug(r, a, slug) ==
    IF slug # NoSlug THEN setBySlug(r, [a EXCEPT !.currentSlug = slug], slug)
    ELSE [a EXCEPT !.currentSlug = slug]

\* if (slug) { setCurrentSlug(slug); viewerRef.current?.setBySlug(slug) }
ShowIfAny(r, a, slug) == IF slug # NoSlug THEN ShowSlug(r, a, slug) ELSE a

\* const slug = currentStudySlug(); if (slug) { ... }
ShowCurrentIfAny(r, a, cur) == ShowIfAny(r, Stored(a, cur), cur.ret)

\* const updated = advanceStudy(); setStudy(updated); ...
AfterAdvance(r, a, updated) ==
    ShowCurrentIfAny(r, SetStudy(a, updated), currentStudySlug(updated.raw))

\* nextMuscle that advances the page's own copy of the progress and saves it,
\* in place of advanceStudy()'s reload from storage
nextMuscleFromCopy(r, a, k) ==
    IF r.mode = "daily" THEN a
    ELSE IF r.mode = "study"
    THEN AfterAdvance(r, a, AdvanceFrom([ret |-> r.study, raw |-> a.studyRaw]))
    ELSE pickRandom(r.list, r.lastUrl, a, k)

\* nextMuscle without its first line: daily mode advances the study deck
nextMuscleSkipping(r, a, k) ==
    IF r.mode = "free" THEN pickRandom(r.list, r.lastUrl, a, k)
    ELSE AfterAdvance(r, a, advanceStudy(a.studyRaw))

nextMuscle(r, a, k) ==
    IF r.mode = "daily" THEN a
    ELSE IF r.mode = "study" THEN AfterAdvance(r, a, advanceStudy(a.studyRaw))
    ELSE pickRandom(r.list, r.lastUrl, a, k)

\* const p = resetStudy(region); setStudy(p); show p.order[p.index] ?? null
Restart(r, a, p) == ShowSlug(r, SetStudy(a, p), At(p.ret.order, p.ret.index))

\* onClick of the Reset Study button
resetClick(r, a) ==
    [Restart(r, a, resetStudy(a.studyRaw, r.region)) EXCEPT
        !.studyStats = [score |-> 0, attempts |-> 0], !.canReveal = TRUE]

\* const slug = currentStudySlug(); setCurrentSlug(slug); if (slug) ...
ShowCurrent(r, a, cur) == ShowSlug(r, Stored(a, cur), cur.ret)

\* const p = setStudyRegion(region); setStudy(p); ...
AfterSetRegion(r, a, p) ==
    ShowCurrent(r, SetStudy(a, p), currentStudySlug(p.raw))

\* useEffect(..., [region, mode]): rebuild based on region
RegionEffect(r, a) ==
    IF r.mode # "study" THEN a
    ELSE [AfterSetRegion(r, a, setStudyRegion(a.studyRaw, r.region)) EXCEPT
             !.canReveal = TRUE]

\* useEffect(..., [currentSlug]): reset reveal on slug change
SlugEffect(r, a) == [a EXCEPT !.canReveal = TRUE]

\* useEffect(..., []): setStudy(loadStudy())
InitStudyEffect(r, a) == SetStudy(a, loadStudy(a.studyRaw))

\* useEffect(..., []): setMounted(true)
MountedEffect(r, a) == [a EXCEPT !.mounted = TRUE]

\* const s = loadStudy(); if (s?.settings?.region) setRegion(s.settings.region)
SetRegionOf(a, s) == [Stored(a, s) EXCEPT !.region = s.ret.region]

\* useEffect(..., []): load the real region from the stored study
LoadRegionEffect(r, a) == SetRegionOf(a, loadStudy(a.studyRaw))

FreshDaily(date, slug) ==
    [date |-> date, slug |-> slug, score |-> 0, attempts |-> 0,
     completed |-> FALSE, typed |-> TRUE]

AdoptAnyDate(a, existing, fresh) ==
    IF existing = NullDaily \/ existing.slug # fresh.slug
    THEN SaveDailyStats(a, fresh)
    ELSE [a EXCEPT !.dailyStats = existing]

\* if (!existing || existing.date !== date || existing.slug !== todaysSlug)
Adopt(a, existing, fresh) ==
    IF existing = NullDaily \/ existing.date # fresh.date
       \/ existing.slug # fresh.slug
    THEN SaveDailyStats(a, fresh)
    ELSE [a EXCEPT !.dailyStats = existing]

\* const date = nyDateKey(); const todaysSlug = getDailyMuscleSlug(...): each
\* call makes its own new Date(); the second one is at position c2
EnsureDailyAt(a, c2) ==
    Adopt(a, loadDaily(a.dailyRaw),
          FreshDaily(nyDateKey(clock), getDailyMuscleSlug(c2)))

\* useEffect(..., []): ensure daily state for today's date, the two clock
\* reads at the same position
EnsureDailyEffect(r, a) == EnsureDailyAt(a, clock)

\* dailyStats?.slug
DailySlugOf(d) == IF d = NullDaily THEN "undefined" ELSE d.slug

\* const s = loadStudy(); if (!s || s.settings.region !== region) setStudyRegion(region)
EnsureRegion(s, region) ==
    IF s.ret.region # region THEN setStudyRegion(s.raw, region) ELSE s

\* The else branch taken whatever currentStudySlug() returned
RestartAlways(r, a, cur) == Restart(r, Stored(a, cur), resetStudy(cur.raw, r.region))

\* const slug = currentStudySlug(); if (slug) ... else restart the deck
ShowOrRestart(r, a, cur) ==
    IF cur.ret # NoSlug THEN ShowSlug(r, Stored(a, cur), cur.ret)
    ELSE Restart(r, Stored(a, cur), resetStudy(cur.raw, r.region))

ModeStudy(r, a, s) == ShowOrRestart(r, Stored(a, s), currentStudySlug(s.raw))

\* useEffect(..., [mode, dailyStats?.slug]): respond to mode changes
ModeEffect(r, a, k) ==
    IF r.mode = "daily"
    THEN setBySlug(r, [a EXCEPT !.currentSlug =
                           IF r.dailyStats # NullDaily THEN r.dailyStats.slug
                           ELSE getDailyMuscleSlug(clock)],
                   IF r.dailyStats # NullDaily THEN r.dailyStats.slug
                   ELSE getDailyMuscleSlug(clock))
    ELSE IF r.mode = "study"
    THEN ModeStudy(r, a, EnsureRegion(loadStudy(a.studyRaw), r.region))
    ELSE pickRandom(r.list, r.lastUrl, a, k)

\* The effects of a commit in the order they run: those of the children
\* before those of the page, each component's in the order of declaration
EffectOrder ==
    <<"viewerFetch", "viewerSlug", "panelReset", "region", "slug",
      "initStudy", "mounted", "loadRegion", "ensureDaily", "mode">>

\* An effect runs on mount and when a dependency differs from the last render
Triggered(e, first, prev, r) ==
    \/ first
    \/ e = "viewerSlug" /\ (muscleSlug(prev) # muscleSlug(r)
                            \/ Len(prev.list) # Len(r.list))
    \/ e \in {"panelReset", "slug"} /\ prev.currentSlug # r.currentSlug
    \/ e = "region" /\ (prev.region # r.region \/ prev.mode # r.mode)
    \/ e = "mode" /\ (prev.mode # r.mode
                      \/ DailySlugOf(prev.dailyStats) # DailySlugOf(r.dailyStats))
    \/ e = "homeMode" /\ prev.mode # r.mode

Effect(e, r, a, k) ==
    CASE e = "viewerFetch" -> ViewerFetchEffect(r, a)
      [] e = "viewerSlug" -> ViewerSlugEffect(r, a)
      [] e = "panelReset" -> PanelResetEffect(r, a)
      [] e = "region" -> RegionEffect(r, a)
      [] e = "slug" -> SlugEffect(r, a)
      [] e = "initStudy" -> InitStudyEffect(r, a)
      [] e = "mounted" -> MountedEffect(r, a)
      [] e = "loadRegion" -> LoadRegionEffect(r, a)
      [] e = "ensureDaily" -> EnsureDailyEffect(r, a)
      [] e = "mode" -> ModeEffect(r, a, k)

RECURSIVE RunEffects(_, _, _, _, _, _)
RunEffects(i, first, prev, r, a, k) ==
    IF i > Len(EffectOrder) THEN a
    ELSE RunEffects(i + 1, first, prev, r,
                    IF Triggered(EffectOrder[i], first, prev, r)
                    THEN Effect(EffectOrder[i], r, a, k) ELSE a,
                    k)

\* One commit of the render r, which follows the render prev
Commit(first, prev, r, k) == RunEffects(1, first, prev, r, r, k)

\* Render and commit until a commit leaves the state as it rendered
RECURSIVE Settle(_, _, _, _)
Rerender(r, a, k) == IF a = r THEN r ELSE Settle(FALSE, r, a, k)
Settle(first, prev, r, k) == Rerender(r, Commit(first, prev, r, k), k)

\* A handler ran in the closure of the current render and left a
Handled(a, k) == Settle(FALSE, World, a, k)

(***************************************************************************)
(* app/page.tsx: the page at the root, with the same MuscleViewer and      *)
(* GuessPanel.  It starts in daily mode, keeps no daily record and no      *)
(* region, and counts score and attempts for the session; page holds its   *)
(* state in the fields of the same names, score and attempts in            *)
(* studyStats.                                                             *)
(***************************************************************************)
\* useState<Mode>("daily"); useState<StudyProgress>(() => loadStudy())
HomeFirstRender ==
    SetStudy([InitialRender @@ [studyRaw |-> studyRaw, dailyRaw |-> dailyRaw]
                 EXCEPT !.mode = "daily"],
             loadStudy(studyRaw))

\* const slug = currentStudySlug(); if (slug) ... else resetStudy() ...
HomeShowOrRestart(r, a, cur) ==
    IF cur.ret # NoSlug THEN ShowSlug(r, Stored(a, cur), cur.ret)
    ELSE Restart(r, Stored(a, cur), resetStudy(cur.raw, "all"))

\* useEffect(..., [mode]): lock the viewer to the correct slug
HomeModeEffect(r, a, k) ==
    IF r.mode = "daily"
    THEN ShowSlug(r, a, getDailyMuscleSlug(clock))
    ELSE IF r.mode = "study"
    THEN HomeShowOrRestart(r, a, currentStudySlug(a.studyRaw))
    ELSE pickRandom(r.list, r.lastUrl, a, k)

\* The effects of a commit of the root page, children first
HomeEffectOrder ==
    <<"viewerFetch", "viewerSlug", "panelReset", "slug", "homeMode", "initStudy">>

HomeEffect(e, r, a, k) ==
    IF e = "homeMode" THEN HomeModeEffect(r, a, k) ELSE Effect(e, r, a, k)

RECURSIVE HomeRunEffects(_, _, _, _, _, _)
HomeRunEffects(i, first, prev, r, a, k) ==
    IF i > Len(HomeEffectOrder) THEN a
    ELSE HomeRunEffects(i + 1, first, prev, r,
                        IF Triggered(HomeEffectOrder[i], first, prev, r)
                        THEN HomeEffect(HomeEffectOrder[i], r, a, k) ELSE a,
                        k)

HomeCommit(first, prev, r, k) == HomeRunEffects(1, first, prev, r, r, k)

RECURSIVE HomeSettle(_, _, _, _)
HomeRerender(r, a, k) == IF a = r THEN r ELSE HomeSettle(FALSE, r, a, k)
HomeSettle(first, prev, r, k) == HomeRerender(r, HomeCommit(first, prev, r, k), k)

HomeHandled(a, k) == HomeSettle(FALSE, World, a, k)

\* onAttempt={() => setAttempts((a) => a + 1)}
homeOnAttempt(r, a) == BumpStudy(a, "attempts")

\* onCorrect: setScore, setCanReveal(false), and in study mode the next card
homeOnCorrect(r, a) ==
    IF r.mode = "study"
    THEN AfterAdvance(r, [BumpStudy(a, "score") EXCEPT !.canReveal = FALSE],
                      advanceStudy(a.studyRaw))
    ELSE [BumpStudy(a, "score") EXCEPT !.canReveal = FALSE]

\* GuessPanel.submit under the callbacks of the root page
homeSubmit(r, a, guess) ==
    IF ~HasEntry(r.currentSlug) THEN a
    ELSE IF r.status \in {"correct", "revealed"} THEN a
    ELSE IF guess = "empty" THEN a
    ELSE IF guess = "right"
    THEN homeOnCorrect(r, homeOnAttempt(r, [a EXCEPT !.status = "correct"]))
    ELSE homeOnAttempt(r, [a EXCEPT !.status = "wrong"])

homeReveal(r, a) ==
    IF ~r.canReveal THEN a
    ELSE [panelReveal(r, BumpStudy(a, "attempts")) EXCEPT !.canReveal = FALSE]

\* onClick of the Reset Study button of the root page
homeResetClick(r, a) ==
    [Restart(r, a, resetStudy(a.studyRaw, "all")) EXCEPT
        !.studyStats = [score |-> 0, attempts |-> 0], !.canReveal = TRUE]

(***************************************************************************)
(* components/GuessPanel.tsx: the matcher.  A string is the sequence of    *)
(* its characters; the alphabet has two lower-case letters, an upper-case  *)
(* letter, a letter with an accent, the space and a punctuation mark.      *)
(***************************************************************************)
Chars == {"a", "b", "A", "á", " ", "-"}

\* U+0301, the combining accent that NFKD splits off
Acute == "U+0301"

\* String.prototype.toLowerCase, one character
LowerCaseChar(c) == IF c = "A" THEN "a" ELSE c

\* .normalize("NFKD"), one character
Nfkd(c) == IF c = "á" THEN <<"a", Acute>> ELSE <<c>>

RECURSIVE NfkdAll(_)
NfkdAll(s) == IF s = <<>> THEN <<>> ELSE Nfkd(Head(s)) \o NfkdAll(Tail(s))

\* .replace(/[\u0300-\u036f]/g, "")
StripMarks(s) == SelectSeq(s, LAMBDA c : c # Acute)

\* [a-z0-9]
IsLowerAlnum(c) == c \in {"a", "b"}

RECURSIVE DropOthers(_)
DropOthers(s) ==
    IF s = <<>> THEN <<>>
    ELSE IF IsLowerAlnum(Head(s)) THEN s ELSE DropOthers(Tail(s))

\* .replace(/[^a-z0-9]+/g, " ")
RECURSIVE ReplaceOthers(_)
ReplaceOthers(s) ==
    IF s = <<>> THEN <<>>
    ELSE IF IsLowerAlnum(Head(s)) THEN <<Head(s)>> \o ReplaceOthers(Tail(s))
    ELSE <<" ">> \o ReplaceOthers(DropOthers(Tail(s)))

RECURSIVE TrimStart(_)
TrimStart(s) ==
    IF s # <<>> /\ Head(s) = " " THEN TrimStart(Tail(s)) ELSE s

RECURSIVE TrimEnd(_)
TrimEnd(s) ==
    IF s # <<>> /\ s[Len(s)] = " " THEN TrimEnd(SubSeq(s, 1, Len(s) - 1)) ELSE s

\* .trim()
Trim(s) == TrimEnd(TrimStart(s))

norm(s) ==
    Trim(ReplaceOthers(StripMarks(NfkdAll([i \in 1..Len(s) |-> LowerCaseChar(s[i])]))))

\* [entry.name, entry.slug, ...(entry.accepted || [])].map(norm)
pool(entry) ==
    {norm(entry.name), norm(entry.slug)}
        \cup {norm(entry.accepted[i]) : i \in 1..Len(entry.accepted)}

\* isMatch without if (!n) return false
isMatchAnyNorm(input, entry) == norm(input) \in pool(entry)

isMatch(input, entry) ==
    IF norm(input) = <<>> THEN FALSE
    ELSE norm(input) \in pool(entry)

NoMatch == [input |-> <<>>, entry |-> Null, result |-> FALSE]

(***************************************************************************)
(* SpecDeck: buildDeck over every catalog, region and date                 *)
(***************************************************************************)
InitDeck ==
    /\ catalog \in {CatalogOf(t) : t \in Catalogs}
    /\ clock \in 0..MaxClock
    /\ storageMode = "ok"
    /\ studyRaw = RawAbsent
    /\ lastOp = "init"
    /\ match = NoMatch
    /\ calls = <<>>
    /\ argRegion = "all"
    /\ retProgress = Null
    /\ retSlug = NoSlug
    /\ retDeck = <<>>
    /\ prevRaw = RawAbsent
    /\ resetRet = Null
    /\ advances = -1
    /\ dailyRaw = DailyAbsent
    /\ page = InitialRender

BuildDeck(region) ==
    /\ lastOp' = "buildDeck"
    /\ argRegion' = region
    /\ retDeck' = buildDeck(region)
    /\ UNCHANGED <<calls, match, catalog, clock, storageMode, studyRaw, retProgress, retSlug,
                   prevRaw, resetRet, advances, dailyRaw, page>>

\* Time passes: new Date() moves on to the next position of the time line.
Tick ==
    /\ clock < MaxClock
    /\ clock' = clock + 1
    /\ lastOp' = "tick"
    /\ argRegion' = "all"
    /\ retProgress' = Null
    /\ retSlug' = NoSlug
    /\ retDeck' = <<>>
    /\ prevRaw' = studyRaw
    /\ UNCHANGED <<calls, match, catalog, storageMode, studyRaw, resetRet, advances,
                   dailyRaw, page>>

NextDeck ==
    \/ \E region \in Regions : BuildDeck(region)
    \/ Tick

SpecDeck == InitDeck /\ [][NextDeck]_vars

(***************************************************************************)
(* SpecStudy: the exported operations of lib/study.ts, called in any order *)
(* on any stored value.                                                    *)
(***************************************************************************)
StoredSlugs == {"s1", "zz"}
StoredOrders == UNION {[1..n -> StoredSlugs] : n \in 0..MaxStored}
StoredRegions == {"all", "upper", "lower", "core"}

WellTypedRaws ==
    {[kind |-> "object", orderIsArray |-> TRUE, order |-> o,
      indexIsNumber |-> TRUE, index |-> i,
      completedIsBoolean |-> TRUE, completed |-> c,
      settings |-> "present", region |-> r, extra |-> FALSE] :
        o \in StoredOrders, i \in -1..MaxStored, c \in BOOLEAN, r \in StoredRegions}

BaseRaw ==
    [kind |-> "object", orderIsArray |-> TRUE, order |-> <<"s1">>,
     indexIsNumber |-> TRUE, index |-> 0,
     completedIsBoolean |-> TRUE, completed |-> FALSE,
     settings |-> "present", region |-> "all", extra |-> FALSE]

IllTypedRaws ==
    {[BaseRaw EXCEPT !.orderIsArray = FALSE, !.order = <<>>],
     [BaseRaw EXCEPT !.indexIsNumber = FALSE],
     [BaseRaw EXCEPT !.completedIsBoolean = FALSE],
     [BaseRaw EXCEPT !.settings = "missing", !.region = NoRegion],
     [BaseRaw EXCEPT !.region = NoRegion],
     [BaseRaw EXCEPT !.extra = TRUE]}

StoredRaws ==
    {RawOf(k) : k \in {"absent", "empty", "badjson", "falsy", "scalar"}}
    \cup WellTypedRaws \cup IllTypedRaws

\* One catalog with entries, one without
StudyCatalogs ==
    {<<>>,
     CatalogOf([i \in 1..MaxCatalog |->
                   IF i % 3 = 1 THEN "upper" ELSE IF i % 3 = 2 THEN "Upper"
                   ELSE NoRegion])}

InitStudy ==
    /\ catalog \in StudyCatalogs
    /\ clock = 0
    /\ storageMode \in StorageModes
    /\ studyRaw \in StoredRaws
    /\ lastOp = "init"
    /\ match = NoMatch
    /\ calls = <<>>
    /\ argRegion = "all"
    /\ retProgress = Null
    /\ retSlug = NoSlug
    /\ retDeck = <<>>
    /\ prevRaw = studyRaw
    /\ resetRet = Null
    /\ advances = -1
    /\ dailyRaw = DailyAbsent
    /\ page = InitialRender

\* One call of an exported operation: r is its [ret, raw]
Call(op, region, r) ==
    /\ lastOp' = op
    /\ argRegion' = region
    /\ prevRaw' = studyRaw
    /\ studyRaw' = r.raw
    /\ retProgress' = IF op = "currentStudySlug" THEN Null ELSE r.ret
    /\ retSlug' = IF op = "currentStudySlug" THEN r.ret ELSE NoSlug
    /\ UNCHANGED <<calls, match, catalog, clock, storageMode, retDeck, dailyRaw, page>>

ResetStudy(region) ==
    /\ Call("resetStudy", region, resetStudy(studyRaw, region))
    /\ UNCHANGED <<resetRet, advances>>

LoadStudy ==
    /\ Call("loadStudy", "all", loadStudy(studyRaw))
    /\ UNCHANGED <<resetRet, advances>>

SetStudyRegion(region) ==
    /\ Call("setStudyRegion", region, setStudyRegion(studyRaw, region))
    /\ UNCHANGED <<resetRet, advances>>

AdvanceStudy ==
    /\ Call("advanceStudy", "all", advanceStudy(studyRaw))
    /\ UNCHANGED <<resetRet, advances>>

CurrentStudySlug ==
    /\ Call("currentStudySlug", "all", currentStudySlug(studyRaw))
    /\ UNCHANGED <<resetRet, advances>>

NextStudy ==
    \/ \E region \in Regions : ResetStudy(region)
    \/ LoadStudy
    \/ \E region \in Regions : SetStudyRegion(region)
    \/ AdvanceStudy
    \/ CurrentStudySlug
    \/ Tick

SpecStudy == InitStudy /\ [][NextStudy]_vars

(***************************************************************************)
(* SpecSession: one session that resets the deck and walks through it;     *)
(* resetRet and advances record the walk.                                  *)
(***************************************************************************)
SessionRaws ==
    {RawAbsent, RawOf("badjson"), [BaseRaw EXCEPT !.region = "upper"]}

InitSession ==
    /\ catalog \in StudyCatalogs
    /\ clock = 0
    /\ storageMode \in StorageModes
    /\ studyRaw \in SessionRaws
    /\ lastOp = "init"
    /\ match = NoMatch
    /\ calls = <<>>
    /\ argRegion = "all"
    /\ retProgress = Null
    /\ retSlug = NoSlug
    /\ retDeck = <<>>
    /\ prevRaw = studyRaw
    /\ resetRet = Null
    /\ advances = -1
    /\ dailyRaw = DailyAbsent
    /\ page = InitialRender

SessionReset(region) ==
    LET r == resetStudy(studyRaw, region)
    IN  /\ Call("resetStudy", region, r)
        /\ resetRet' = r.ret
        /\ advances' = 0

SessionAdvance ==
    /\ advances < MaxAdvances
    /\ Call("advanceStudy", "all", advanceStudy(studyRaw))
    /\ advances' = IF advances >= 0 THEN advances + 1 ELSE -1
    /\ UNCHANGED resetRet

SessionCurrent ==
    /\ Call("currentStudySlug", "all", currentStudySlug(studyRaw))
    /\ UNCHANGED <<resetRet, advances>>

SessionLoad ==
    /\ Call("loadStudy", "all", loadStudy(studyRaw))
    /\ UNCHANGED <<resetRet, advances>>

\* A region switch ends the walk unless it names the walk's own region.
SessionSetRegion(region) ==
    LET same == resetRet # Null /\ resetRet.region = region
    IN  /\ Call("setStudyRegion", region, setStudyRegion(studyRaw, region))
        /\ resetRet' = IF same THEN resetRet ELSE Null
        /\ advances' = IF same THEN advances ELSE -1

NextSession ==
    \/ \E region \in Regions : SessionReset(region)
    \/ SessionAdvance
    \/ SessionCurrent
    \/ SessionLoad
    \/ \E region \in Regions : SessionSetRegion(region)
    \/ Tick

SpecSession == InitSession /\ [][NextSession]_vars

(***************************************************************************)
(* SpecPage: one browser tab on app/muscle/page.tsx.  The user loads and   *)
(* reloads the page and uses the controls it renders while the date moves  *)
(* on and the request for the manifest completes.                          *)
(***************************************************************************)
PageCatalogs ==
    {<<>>,
     CatalogOf([i \in 1..MaxCatalog |->
                   IF i % 3 = 1 THEN "upper" ELSE IF i % 3 = 2 THEN "lower"
                   ELSE NoRegion])}

PageStorageModes == {"ok", "disabled"}

InitPage ==
    /\ catalog \in PageCatalogs
    /\ clock = 0
    /\ storageMode \in PageStorageModes
    /\ studyRaw = RawAbsent
    /\ lastOp = "init"
    /\ match = NoMatch
    /\ calls = <<>>
    /\ argRegion = "all"
    /\ retProgress = Null
    /\ retSlug = NoSlug
    /\ retDeck = <<>>
    /\ prevRaw = RawAbsent
    /\ resetRet = Null
    /\ advances = -1
    /\ dailyRaw = DailyAbsent
    /\ page = InitialRender

\* An event left the state w behind.  prevRaw keeps the stored study value
\* that a page load found.
Event(ev, w) ==
    /\ lastOp' = ev
    /\ prevRaw' = IF ev = "load" THEN studyRaw ELSE RawAbsent
    /\ page' = PageOf(w)
    /\ studyRaw' = w.studyRaw
    /\ dailyRaw' = w.dailyRaw
    /\ UNCHANGED <<calls, match, catalog, clock, storageMode, argRegion, retProgress, retSlug,
                   retDeck, resetRet, advances>>

\* .filter((p) => !/skeleton\.glb$/i.test(p))
Pool == SelectSeq(ManifestFiles, LAMBDA p : p.base # "skeleton")

Picks == 1..Max(1, Len(Pool))

\* The first render of a page load
FirstRender == InitialRender @@ [studyRaw |-> studyRaw, dailyRaw |-> dailyRaw]

\* The page is loaded, or loaded again: first render and mount
LoadPage == Event("load", Settle(TRUE, FirstRender, FirstRender, 1))

\* .then((files) => { setList(pool); if (pool.length > 0) ... }) in the
\* closure r0 of the first render
manifestLoaded(r0, a, k) ==
    IF Len(Pool) = 0 THEN a
    ELSE IF muscleSlug(r0) # NoSlug THEN setBySlug(r0, a, muscleSlug(r0))
    ELSE pickRandom(Pool, r0.lastUrl, a, k)

\* fetch("/models/manifest.json") resolves.  A request that fails sets the
\* error notice and nothing else: it leaves the state as a request does that
\* is still pending.
ManifestLoaded ==
    /\ page.fetch = "pending"
    /\ \E k \in Picks :
         Event("event",
               Handled(manifestLoaded(InitialRender,
                                      [World EXCEPT !.list = Pool, !.fetch = "done"],
                                      k), k))

\* The counters of the model stop at MaxStudyAttempts and MaxAttempts
Counting ==
    /\ page.studyStats.attempts < MaxStudyAttempts
    /\ page.dailyStats.attempts < MaxAttempts

\* Enter in the input, or the submit button
Submit(guess) ==
    /\ page.mounted
    /\ ~InputDisabled(page)
    /\ Counting
    /\ Event("event", Handled(submit(World, World, guess), 1))

ClickReveal ==
    /\ page.mounted
    /\ ~RevealDisabled(page)
    /\ Counting
    /\ Event("event", Handled(reveal(World, World), 1))

ClickNext ==
    /\ page.mounted
    /\ page.mode # "daily"
    /\ \E k \in IF page.mode = "free" THEN Picks ELSE {1} :
         Event("event", Handled(nextMuscle(World, World, k), k))

ClickReset ==
    /\ page.mounted
    /\ page.mode = "study"
    /\ Event("event", Handled(resetClick(World, World), 1))

\* (["study", "free"] as Mode[]).map(...): the buttons of the mode switcher
SwitcherModes == {"study", "free"}

\* onClick={() => setMode(m)}
SetMode(m) ==
    /\ page.mounted
    /\ \E k \in IF m = "free" THEN Picks ELSE {1} :
         Event("event", Handled([World EXCEPT !.mode = m], k))

SetRegion(region) ==
    /\ page.mounted
    /\ page.mode = "study"
    /\ Event("event", Handled([World EXCEPT !.region = region], 1))

\* new Date() moves on while the page is open or closed
PassTime ==
    /\ clock < MaxClock
    /\ clock' = clock + 1
    /\ lastOp' = "event"
    /\ prevRaw' = RawAbsent
    /\ UNCHANGED <<calls, match, catalog, storageMode, studyRaw, argRegion, retProgress,
                   retSlug, retDeck, resetRet, advances, dailyRaw, page>>

NextPage ==
    \/ LoadPage
    \/ ManifestLoaded
    \/ \E guess \in {"empty", "wrong", "right"} : Submit(guess)
    \/ ClickReveal
    \/ ClickNext
    \/ ClickReset
    \/ \E m \in SwitcherModes : SetMode(m)
    \/ \E region \in Regions : SetRegion(region)
    \/ PassTime

SpecPage == InitPage /\ [][NextPage]_vars

(***************************************************************************)
(* SpecDailyPage: the page with daily mode in use.  Mode has the value     *)
(* "daily" and the effects, handlers and controls of the page provide for  *)
(* it, but the switcher of app/muscle/page.tsx renders no button for it    *)
(* (the one of app/page.tsx does).  SelectDaily is the setMode("daily")    *)
(* that such a button makes; the rest is SpecPage.                         *)
(***************************************************************************)
SelectDaily ==
    /\ page.mode # "daily"
    /\ SetMode("daily")

NextDailyPage ==
    \/ LoadPage
    \/ ManifestLoaded
    \/ \E guess \in {"empty", "wrong", "right"} : Submit(guess)
    \/ ClickReveal
    \/ ClickNext
    \/ ClickReset
    \/ \E m \in SwitcherModes : SetMode(m)
    \/ SelectDaily
    \/ \E region \in Regions : SetRegion(region)
    \/ PassTime

SpecDailyPage == InitPage /\ [][NextDailyPage]_vars

(***************************************************************************)
(* SpecCalls: SpecDailyPage, and nextMuscle called in whatever mode the    *)
(* page is in.  The page renders the button of nextMuscle outside daily    *)
(* mode only (ClickNext); the handler exists in every render.              *)
(***************************************************************************)
CallNextMuscle ==
    /\ page.mounted
    /\ \E k \in IF page.mode = "free" THEN Picks ELSE {1} :
         Event("nextMuscle", Handled(nextMuscle(World, World, k), k))

NextCalls ==
    \/ NextDailyPage
    \/ CallNextMuscle

SpecCalls == InitPage /\ [][NextCalls]_vars

(***************************************************************************)
(* SpecDaily: the daily selector and the daily record at page load.  The   *)
(* storage key of the daily record holds any value an earlier visit, an    *)
(* earlier catalog or another program left there; the page is loaded and   *)
(* loaded again while the date moves on, and getDailyMuscleSlug is called. *)
(***************************************************************************)
\* Scores, attempts and completed flags of stored records
StoredCounts == {<<0, 0, FALSE>>, <<0, 1, FALSE>>, <<1, 1, TRUE>>, <<0, 1, TRUE>>}

\* A slug of an entry that the catalog no longer has
GoneSlug == "gone"

DailyRaws ==
    {DailyRawOf(kind) : kind \in {"absent", "empty", "badjson", "falsy", "scalar"}}
    \cup {[kind |-> "object", date |-> nyDateKey(c), slug |-> slug,
           score |-> n[1], attempts |-> n[2], completed |-> n[3],
           typed |-> t] :
              c \in 0..MaxClock, slug \in Slugs \cup {GoneSlug}, n \in StoredCounts,
              t \in BOOLEAN}

DailyCatalogs ==
    {CatalogOf([i \in 1..n |->
                   IF i % 3 = 1 THEN "upper" ELSE IF i % 3 = 2 THEN "lower"
                   ELSE NoRegion]) : n \in 0..MaxCatalog}

InitDaily ==
    /\ catalog \in DailyCatalogs
    /\ clock = 0
    /\ storageMode \in {"ok", "quota", "disabled"}
    /\ studyRaw = RawAbsent
    /\ lastOp = "init"
    /\ match = NoMatch
    /\ calls = <<>>
    /\ argRegion = "all"
    /\ retProgress = Null
    /\ retSlug = NoSlug
    /\ retDeck = <<>>
    /\ prevRaw = RawAbsent
    /\ resetRet = Null
    /\ advances = -1
    /\ dailyRaw \in DailyRaws
    /\ page = InitialRender

\* getDailyMuscleSlug("America/New_York") is called and returns
GetDailyMuscleSlug ==
    /\ lastOp' = "getDailyMuscleSlug"
    /\ retSlug' = getDailyMuscleSlug(clock)
    /\ UNCHANGED <<calls, match, catalog, clock, storageMode, studyRaw, argRegion, retProgress,
                   retDeck, prevRaw, resetRet, advances, dailyRaw, page>>

NextDaily ==
    \/ LoadPage
    \/ GetDailyMuscleSlug
    \/ PassTime

SpecDaily == InitDaily /\ [][NextDaily]_vars

(***************************************************************************)
(* SpecMidnight: the page is loaded while time passes between the two      *)
(* clock reads of the ensure-daily effect.  Everything else of the mount   *)
(* reads the UTC date or no date, so the second read is let move only      *)
(* within a UTC day: the step from position 1 to 2 is midnight in New      *)
(* York.                                                                   *)
(***************************************************************************)
LaterReads == {c \in {clock, clock + 1} : c <= MaxClock /\ UtcDate(c) = UtcDate(clock)}

EffectAt(e, r, a, k, c2) ==
    IF e = "ensureDaily" THEN EnsureDailyAt(a, c2) ELSE Effect(e, r, a, k)

RECURSIVE RunEffectsAt(_, _, _, _, _)
RunEffectsAt(i, r, a, k, c2) ==
    IF i > Len(EffectOrder) THEN a
    ELSE RunEffectsAt(i + 1, r,
                      IF Triggered(EffectOrder[i], TRUE, r, r)
                      THEN EffectAt(EffectOrder[i], r, a, k, c2) ELSE a,
                      k, c2)

\* The page is loaded; the effects with no dependencies run in the first
\* commit only, the renders that follow are those of every event
LoadPageOverTime ==
    \E c2 \in LaterReads :
        /\ clock' = c2
        /\ lastOp' = "load"
        /\ prevRaw' = studyRaw
        /\ page' = PageOf(Rerender(FirstRender, RunEffectsAt(1, FirstRender, FirstRender, 1, c2), 1))
        /\ studyRaw' = Rerender(FirstRender, RunEffectsAt(1, FirstRender, FirstRender, 1, c2), 1).studyRaw
        /\ dailyRaw' = Rerender(FirstRender, RunEffectsAt(1, FirstRender, FirstRender, 1, c2), 1).dailyRaw
        /\ UNCHANGED <<calls, match, catalog, storageMode, argRegion, retProgress, retSlug,
                       retDeck, resetRet, advances>>

NextMidnight ==
    \/ LoadPageOverTime
    \/ PassTime

SpecMidnight == InitDaily /\ [][NextMidnight]_vars

(***************************************************************************)
(* SpecEngine: the exported operations of lib/study.ts and lib/daily.ts,   *)
(* called in every order from every stored value.                          *)
(***************************************************************************)
NextEngine ==
    \/ NextStudy
    \/ GetDailyMuscleSlug

SpecEngine == InitStudy /\ [][NextEngine]_vars

(***************************************************************************)
(* SpecMatch: isMatch over every input of up to MaxGuess characters and a  *)
(* few catalog entries.                                                    *)
(***************************************************************************)
Inputs == UNION {[1..n -> Chars] : n \in 0..MaxGuess}

\* Entries of data/muscles.json: "a-b" / "A b" / "ab", an entry with an
\* accepted answer of punctuation only, and an entry named with an accent
Entries ==
    {[slug |-> <<"a", "-", "b">>, name |-> <<"A", " ", "b">>,
      accepted |-> << <<"a", "b">> >>],
     [slug |-> <<"b">>, name |-> <<"b">>, accepted |-> << <<"-">>, <<"b", "a">> >>],
     [slug |-> <<"a">>, name |-> <<"á">>, accepted |-> <<>>]}

\* A call of isMatch about to be made
InitMatch ==
    /\ catalog = <<>>
    /\ clock = 0
    /\ storageMode = "ok"
    /\ studyRaw = RawAbsent
    /\ lastOp = "init"
    /\ match \in {[input |-> input, entry |-> entry, result |-> FALSE] :
                     input \in Inputs, entry \in Entries}
    /\ calls = <<>>
    /\ argRegion = "all"
    /\ retProgress = Null
    /\ retSlug = NoSlug
    /\ retDeck = <<>>
    /\ prevRaw = RawAbsent
    /\ resetRet = Null
    /\ advances = -1
    /\ dailyRaw = DailyAbsent
    /\ page = InitialRender

\* if (isMatch(trimmed, entry)) ...
IsMatch ==
    /\ lastOp = "init"
    /\ lastOp' = "isMatch"
    /\ match' = [match EXCEPT !.result = isMatch(match.input, match.entry)]
    /\ UNCHANGED <<calls, catalog, clock, storageMode, studyRaw, argRegion, retProgress,
                   retSlug, retDeck, prevRaw, resetRet, advances, dailyRaw, page>>

NextMatch == IsMatch

SpecMatch == InitMatch /\ [][NextMatch]_vars

(***************************************************************************)
(* SpecPanel: components/GuessPanel.tsx on its own.  The parent passes any *)
(* currentSlug, calls reveal() through the ref at any time, and the user   *)
(* submits guesses; calls records what the panel emits.  A guess is empty  *)
(* once trimmed, or wrong or right for the entry (isMatch is SpecMatch's). *)
(***************************************************************************)
Guesses == {"empty", "wrong", "right"}

\* submit without the test of status
panelSubmitUnlocked(r, guess) ==
    IF ~HasEntry(r.currentSlug) THEN [status |-> r.status, calls |-> <<>>]
    ELSE IF guess = "empty" THEN [status |-> r.status, calls |-> <<>>]
    ELSE IF guess = "right"
    THEN [status |-> "correct", calls |-> <<"onAttempt(correct)", "onCorrect">>]
    ELSE [status |-> "wrong", calls |-> <<"onAttempt(wrong)">>]

\* submit: the status it sets and the callbacks it calls
panelSubmit(r, guess) ==
    IF ~HasEntry(r.currentSlug) THEN [status |-> r.status, calls |-> <<>>]
    ELSE IF r.status \in {"correct", "revealed"} THEN [status |-> r.status, calls |-> <<>>]
    ELSE IF guess = "empty" THEN [status |-> r.status, calls |-> <<>>]
    ELSE IF guess = "right"
    THEN [status |-> "correct", calls |-> <<"onAttempt(correct)", "onCorrect">>]
    ELSE [status |-> "wrong", calls |-> <<"onAttempt(wrong)">>]

SubmitOp(guess) ==
    IF guess = "empty" THEN "submitEmpty"
    ELSE IF guess = "right" THEN "submitRight" ELSE "submitWrong"

\* The slugs the parent passes: of the catalog, of none of its entries, null
PanelSlugs == Slugs \cup {"gone", NoSlug}

InitPanel ==
    /\ catalog \in {CatalogOf([i \in 1..n |-> NoRegion]) : n \in 0..MaxCatalog}
    /\ clock = 0
    /\ storageMode = "ok"
    /\ studyRaw = RawAbsent
    /\ lastOp = "init"
    /\ match = NoMatch
    /\ calls = <<>>
    /\ argRegion = "all"
    /\ retProgress = Null
    /\ retSlug = NoSlug
    /\ retDeck = <<>>
    /\ prevRaw = RawAbsent
    /\ resetRet = Null
    /\ advances = -1
    /\ dailyRaw = DailyAbsent
    /\ page = InitialRender

PanelStep(op, w, emitted) ==
    /\ lastOp' = op
    /\ page' = w
    /\ calls' = emitted
    /\ UNCHANGED <<catalog, clock, storageMode, studyRaw, argRegion, retProgress,
                   retSlug, retDeck, prevRaw, resetRet, advances, dailyRaw, match>>

\* Enter in the input, or the submit button
PanelSubmit(guess) ==
    PanelStep(SubmitOp(guess),
              [page EXCEPT !.status = panelSubmit(page, guess).status],
              panelSubmit(page, guess).calls)

\* guessRef.current?.reveal()
PanelReveal == PanelStep("reveal", panelReveal(page, page), <<>>)

\* The parent renders with another currentSlug; the effect of the panel runs
PanelShow(slug) ==
    /\ slug # page.currentSlug
    /\ PanelStep("show", PanelResetEffect(page, [page EXCEPT !.currentSlug = slug]), <<>>)

NextPanel ==
    \/ \E guess \in Guesses : PanelSubmit(guess)
    \/ PanelReveal
    \/ \E slug \in PanelSlugs : PanelShow(slug)

SpecPanel == InitPanel /\ [][NextPanel]_vars

(***************************************************************************)
(* SpecStats: a session of app/muscle/page.tsx that stays in study mode:   *)
(* guesses, reveals, Next and Reset Study, with the study statistics       *)
(* counted up to MaxStats.                                                 *)
(***************************************************************************)
StatsSubmit(guess) ==
    /\ page.mounted
    /\ ~InputDisabled(page)
    /\ page.studyStats.attempts < MaxStats
    /\ Event(SubmitOp(guess), Handled(submit(World, World, guess), 1))

StatsReveal ==
    /\ page.mounted
    /\ ~RevealDisabled(page)
    /\ page.studyStats.attempts < MaxStats
    /\ Event("reveal", Handled(reveal(World, World), 1))

NextStats ==
    \/ LoadPage
    \/ ManifestLoaded
    \/ \E guess \in Guesses : StatsSubmit(guess)
    \/ StatsReveal
    \/ ClickNext
    \/ ClickReset

SpecStats == InitPage /\ [][NextStats]_vars

(***************************************************************************)
(* SpecTabs: two browser tabs on app/muscle/page.tsx on one date, sharing  *)
(* localStorage.  page is the pair of their React states.  Each tab is     *)
(* loaded and reloaded, put in daily mode, and used for guesses and        *)
(* reveals in daily mode.                                                  *)
(***************************************************************************)
Tabs == {1, 2}

TabWorld(t) == page[t] @@ [studyRaw |-> studyRaw, dailyRaw |-> dailyRaw]

TabEvent(t, ev, w) ==
    /\ lastOp' = ev
    /\ prevRaw' = IF ev = "load" THEN studyRaw ELSE RawAbsent
    /\ page' = [page EXCEPT ![t] = PageOf(w)]
    /\ studyRaw' = w.studyRaw
    /\ dailyRaw' = w.dailyRaw
    /\ UNCHANGED <<catalog, clock, storageMode, argRegion, retProgress, retSlug,
                   retDeck, resetRet, advances, match, calls>>

InitTabs ==
    /\ catalog \in PageCatalogs
    /\ clock = 0
    /\ storageMode \in PageStorageModes
    /\ studyRaw = RawAbsent
    /\ lastOp = "init"
    /\ match = NoMatch
    /\ calls = <<>>
    /\ argRegion = "all"
    /\ retProgress = Null
    /\ retSlug = NoSlug
    /\ retDeck = <<>>
    /\ prevRaw = RawAbsent
    /\ resetRet = Null
    /\ advances = -1
    /\ dailyRaw = DailyAbsent
    /\ page = <<InitialRender, InitialRender>>

TabLoad(t) == TabEvent(t, "load", Settle(TRUE, FirstRender, FirstRender, 1))

TabSelectDaily(t) ==
    /\ page[t].mounted
    /\ page[t].mode # "daily"
    /\ TabEvent(t, "event",
                Settle(FALSE, TabWorld(t), [TabWorld(t) EXCEPT !.mode = "daily"], 1))

TabSubmit(t, guess) ==
    /\ page[t].mounted
    /\ page[t].mode = "daily"
    /\ ~InputDisabled(page[t])
    /\ page[t].dailyStats.attempts < MaxAttempts
    /\ TabEvent(t, "event",
                Settle(FALSE, TabWorld(t), submit(TabWorld(t), TabWorld(t), guess), 1))

TabReveal(t) ==
    /\ page[t].mounted
    /\ page[t].mode = "daily"
    /\ ~RevealDisabled(page[t])
    /\ page[t].dailyStats.attempts < MaxAttempts
    /\ TabEvent(t, "event",
                Settle(FALSE, TabWorld(t), reveal(TabWorld(t), TabWorld(t)), 1))

NextTabs ==
    \E t \in Tabs :
        \/ TabLoad(t)
        \/ TabSelectDaily(t)
        \/ \E guess \in {"wrong", "right"} : TabSubmit(t, guess)
        \/ TabReveal(t)

SpecTabs == InitTabs /\ [][NextTabs]_vars

(***************************************************************************)
(* SpecTabsStudy: the two tabs in study mode.  Each tab is loaded and      *)
(* reloaded and its Next button is clicked, in any order; every event is   *)
(* one synchronous step on the shared localStorage.  resetRet is the deck  *)
(* as a page load last stored it and advances counts the advanceStudy()    *)
(* calls of both tabs since then.                                          *)
(***************************************************************************)
TabTracked(t, ev, w, deck, n) ==
    /\ lastOp' = ev
    /\ prevRaw' = studyRaw
    /\ page' = [page EXCEPT ![t] = PageOf(w)]
    /\ studyRaw' = w.studyRaw
    /\ dailyRaw' = w.dailyRaw
    /\ resetRet' = deck
    /\ advances' = n
    /\ UNCHANGED <<catalog, clock, storageMode, argRegion, retProgress, retSlug,
                   retDeck, match, calls>>

\* A load that stores a deck (none was stored, or a completed one) starts
\* the count again
TabLoadStudy(t) ==
    LET w == Settle(TRUE, FirstRender, FirstRender, 1)
    IN  IF w.studyRaw # studyRaw
        THEN TabTracked(t, "load", w, parse(w.studyRaw), 0)
        ELSE TabTracked(t, "load", w, resetRet, advances)

\* The Next button of tab t: nextMuscle calls advanceStudy() once
TabNext(t) ==
    /\ page[t].mounted
    /\ page[t].mode = "study"
    /\ advances < MaxAdvances
    /\ TabTracked(t, "next",
                  Settle(FALSE, TabWorld(t), nextMuscle(TabWorld(t), TabWorld(t), 1), 1),
                  resetRet, IF advances >= 0 THEN advances + 1 ELSE -1)

NextTabsStudy ==
    \E t \in Tabs :
        \/ TabLoadStudy(t)
        \/ TabNext(t)

SpecTabsStudy == InitTabs /\ [][NextTabsStudy]_vars

(***************************************************************************)
(* SpecHome: one browser tab on app/page.tsx.                              *)
(***************************************************************************)
HomeLoad == Event("load", HomeSettle(TRUE, HomeFirstRender, HomeFirstRender, 1))

\* fetch resolves in the closure of the first render, whose muscleSlug is null
HomeManifestLoaded ==
    /\ page.fetch = "pending"
    /\ \E k \in Picks :
         Event("event",
               HomeHandled(manifestLoaded(InitialRender,
                                          [World EXCEPT !.list = Pool,
                                                        !.fetch = "done"],
                                          k), k))

HomeSubmit(guess) ==
    /\ lastOp # "init"
    /\ HasEntry(page.currentSlug)
    /\ page.status \notin {"correct", "revealed"}
    /\ page.studyStats.attempts < MaxStudyAttempts
    /\ Event("event", HomeHandled(homeSubmit(World, World, guess), 1))

\* disabled={!currentSlug || !canReveal}
HomeReveal ==
    /\ lastOp # "init"
    /\ page.currentSlug # NoSlug
    /\ page.canReveal
    /\ page.studyStats.attempts < MaxStudyAttempts
    /\ Event("event", HomeHandled(homeReveal(World, World), 1))

HomeNext ==
    /\ lastOp # "init"
    /\ page.mode # "daily"
    /\ \E k \in IF page.mode = "free" THEN Picks ELSE {1} :
         Event("event", HomeHandled(nextMuscle(World, World, k), k))

HomeReset ==
    /\ lastOp # "init"
    /\ page.mode = "study"
    /\ Event("event", HomeHandled(homeResetClick(World, World), 1))

\* (["daily", "study", "free"] as Mode[]).map(... onClick={() => setMode(m)})
HomeSetMode(m) ==
    /\ lastOp # "init"
    /\ page.mode # m
    /\ \E k \in IF m = "free" THEN Picks ELSE {1} :
         Event("event", HomeHandled([World EXCEPT !.mode = m], k))

NextHome ==
    \/ HomeLoad
    \/ HomeManifestLoaded
    \/ \E guess \in {"empty", "wrong", "right"} : HomeSubmit(guess)
    \/ HomeReveal
    \/ HomeNext
    \/ HomeReset
    \/ \E m \in Modes : HomeSetMode(m)
    \/ PassTime

SpecHome == InitPage /\ [][NextHome]_vars

(***************************************************************************)
(* Properties                                                              *)
(***************************************************************************)
Range(seq) == {seq[i] : i \in 1..Len(seq)}
NoDuplicates(seq) == \A i, j \in 1..Len(seq) : seq[i] = seq[j] => i = j
Persisted == parse(studyRaw)

\* A freshly built progress for a region, as the data model describes it
Fresh(region) ==
    [order |-> buildDeck(region), index |-> 0,
     completed |-> Len(buildDeck(region)) = 0, region |-> region, extra |-> FALSE]

\* A stored value with every StudyProgress field present and of the right type
ValidStored(raw) ==
    /\ raw.kind = "object"
    /\ raw.orderIsArray /\ raw.indexIsNumber /\ raw.completedIsBoolean
    /\ raw.settings = "present" /\ raw.region \in {"all", "upper", "lower"}

\* A stored value that is one of the malformed shapes: invalid JSON, a
\* non-object, or an object with a missing or wrongly typed field
Malformed(raw) ==
    \/ raw.kind \in {"empty", "badjson", "falsy", "scalar"}
    \/ /\ raw.kind = "object"
       /\ \/ ~raw.orderIsArray
          \/ ~raw.indexIsNumber
          \/ ~raw.completedIsBoolean
          \/ raw.settings = "missing"
          \/ raw.region \notin {"all", "upper", "lower"}

\* C1 (SpecSession): with working storage, k advanceStudy() calls after a
\* resetStudy() that built a deck of length L >= 1 leave the persisted
\* progress at index min(k, L-1) with completed exactly when k >= L, order and
\* region as reset; advanceStudy() returns what is persisted, so calls beyond
\* the L-th change nothing.
C1_CompletionPinning ==
    (storageMode = "ok" /\ advances >= 0 /\ Len(resetRet.order) >= 1) =>
        /\ studyRaw.kind = "object"
        /\ Persisted = [resetRet EXCEPT
                           !.index = Min(advances, Len(resetRet.order) - 1),
                           !.completed = advances >= Len(resetRet.order)]
        /\ (lastOp = "advanceStudy" => retProgress = Persisted)

C1_Witness ==
    /\ storageMode = "ok"
    /\ lastOp = "advanceStudy"
    /\ Len(resetRet.order) >= 2
    /\ advances = Len(resetRet.order) + 1
    /\ retProgress.completed

\* C2 (SpecStudy): every StudyProgress an operation returns has
\* 0 <= index <= max(0, len(order) - 1).
C2_IndexBound ==
    lastOp \in {"loadStudy", "resetStudy", "setStudyRegion", "advanceStudy"} =>
        /\ 0 <= retProgress.index
        /\ retProgress.index <= Max(0, Len(retProgress.order) - 1)

C4_ControlsDisabled ==
    (page.mode = "daily" /\ page.dailyStats.completed) =>
        InputDisabled(page) /\ RevealDisabled(page)

C4_Kept(before, after) ==
    /\ after.score = before.score
    /\ after.attempts = before.attempts
    /\ after.completed = before.completed

\* A step on the date of a completed record keeps the counts of the record
\* the page holds and of the one in storage
C4_StepKeepsRecord ==
    (page.dailyStats.completed /\ page.dailyStats.date = nyDateKey(clock')) =>
        /\ C4_Kept(page.dailyStats, page'.dailyStats)
        /\ (dailyRaw.kind = "object" /\ dailyRaw.date = page.dailyStats.date) =>
               (dailyRaw'.kind = "object" /\ C4_Kept(dailyRaw, dailyRaw'))

SameProgress(p, q) ==
    /\ p.order = q.order
    /\ p.index = q.index
    /\ p.completed = q.completed
    /\ p.region = q.region

\* C5 (SpecPage): a page load that finds a valid progress in storage that is
\* not completed, of whichever region, leaves the stored progress and the
\* progress the page uses with the order, index, completed and region found.
C5_ProgressSurvivesReload ==
    (lastOp = "load" /\ storageMode = "ok"
     /\ ValidStored(prevRaw) /\ ~prevRaw.completed) =>
        /\ ValidStored(studyRaw)
        /\ SameProgress(parse(studyRaw), parse(prevRaw))
        /\ SameProgress(page.study, parse(prevRaw))

\* The record of today that the ensure-daily effect sets when it adopts none
C11_Fresh ==
    [date |-> nyDateKey(clock), slug |-> getDailyMuscleSlug(clock),
     score |-> 0, attempts |-> 0, completed |-> FALSE, typed |-> TRUE]

\* Storage holds a record of today's date and today's slug, and can be read
C11_HoldsToday ==
    /\ CanRead
    /\ dailyRaw.kind = "object"
    /\ dailyRaw.date = nyDateKey(clock)
    /\ dailyRaw.slug = getDailyMuscleSlug(clock)

C11_Mount ==
    lastOp' = "load" =>
        IF C11_HoldsToday
        THEN /\ page'.dailyStats = parseDaily(dailyRaw)
             /\ dailyRaw' = dailyRaw
        ELSE /\ page'.dailyStats = C11_Fresh
             /\ dailyRaw' = IF CanWrite THEN stringifyDaily(C11_Fresh) ELSE dailyRaw

\* C11 (SpecDaily): a page load that finds no daily record in storage, or
\* one of another date, or one of another slug than today's, sets the fresh
\* record of today (score 0, attempts 0, completed false) and stores it (a
\* write that storage refuses is dropped); a load that finds a record of
\* today's date and slug adopts it as it is and leaves storage as it was.
C11_EnsureToday == [][C11_Mount]_vars

\* A load adopted a stored record of today that was played before
C11_Witness ==
    /\ lastOp = "load"
    /\ dailyRaw.kind = "object"
    /\ page.dailyStats = parseDaily(dailyRaw)
    /\ page.dailyStats.attempts = 1
    /\ page.dailyStats.completed
    /\ page.dailyStats.date = nyDateKey(clock)
    /\ clock > 0

\* A step writes the daily record of the page or the stored one
C12_Records == page'.dailyStats # page.dailyStats \/ dailyRaw' # dailyRaw

C12_WrittenToday ==
    /\ page'.dailyStats.date = nyDateKey(clock')
    /\ dailyRaw' # dailyRaw => dailyRaw'.date = nyDateKey(clock')

C13_Fnv1a ==
    <<<<7134, 6013>>, <<6878, 5610>>, <<36455, 51494>>, <<36199, 51091>>,
      <<35943, 50688>>, <<37735, 53509>>>>

\* hash % N for the New York date of the moment
C13_Remainder(h, n) == (((h[1] % n) * (W16 % n)) + h[2]) % n

C13_Index == C13_Remainder(C13_Fnv1a[(clock \div 2) + 1], Len(catalog))

\* C13 (SpecDaily): with a catalog of N >= 1 entries getDailyMuscleSlug
\* returns catalog[FNV-1a(date key) % N].slug, a slug of the catalog, and a
\* call at any other moment of the same New York date returns the same
\* slug, whatever storage and the page hold.
C13_DailySelection ==
    (lastOp = "getDailyMuscleSlug" /\ Len(catalog) >= 1) =>
        /\ retSlug = catalog[C13_Index + 1].slug
        /\ retSlug \in {catalog[i].slug : i \in 1..Len(catalog)}
        /\ \A c \in 0..MaxClock :
               nyDateKey(c) = nyDateKey(clock) => getDailyMuscleSlug(c) = retSlug

\* A call late on the first date, where the UTC date is already the next
C13_Witness ==
    /\ lastOp = "getDailyMuscleSlug"
    /\ Len(catalog) = 3
    /\ clock = 1
    /\ retSlug = "s2"
    /\ dailyRaw.kind = "object"

\* Daily mode is active on a stored record that is not completed
C14_Open ==
    /\ storageMode = "ok"
    /\ page.mode = "daily"
    /\ dailyRaw.kind = "object"
    /\ ~dailyRaw.completed

C14_Wrong ==
    /\ dailyRaw'.attempts = dailyRaw.attempts + 1
    /\ dailyRaw'.score = dailyRaw.score
    /\ dailyRaw'.completed = dailyRaw.completed

C14_Correct ==
    /\ dailyRaw'.attempts = dailyRaw.attempts + 1
    /\ dailyRaw'.score = dailyRaw.score + 1
    /\ dailyRaw'.completed

C15_RevealAccounting ==
    [][(C14_Open /\ ClickReveal) =>
          /\ dailyRaw' = [dailyRaw EXCEPT !.attempts = dailyRaw.attempts + 1,
                                          !.completed = TRUE]
          /\ page'.dailyStats = parseDaily(dailyRaw')]_vars

\* A reveal ended the day after one wrong guess
C15_Witness ==
    /\ storageMode = "ok"
    /\ page.mode = "daily"
    /\ page.status = "revealed"
    /\ ~page.canReveal
    /\ dailyRaw.kind = "object"
    /\ dailyRaw.completed
    /\ dailyRaw.attempts = 2
    /\ dailyRaw.score = 0
    /\ page.dailyStats = parseDaily(dailyRaw)

\* C16 (SpecHome): whenever daily mode is active, the catalog is not empty
\* and the page has a current entry, that entry is the slug
\* getDailyMuscleSlug gives for today, whichever way the mode effect, the
\* manifest load of the viewer and its onChange callback are ordered.
C16_DailyShowsDaily ==
    (/\ lastOp # "init"
     /\ catalog # <<>>
     /\ page.mode = "daily"
     /\ page.currentSlug # NoSlug) =>
        page.currentSlug = getDailyMuscleSlug(clock)

\* C17 (SpecPage): whenever study mode is active and storage holds a valid
\* progress whose order is not empty and which is not completed, the page's
\* current slug is order[index] of that progress, whichever way the effects,
\* the user's events and the manifest load of the viewer are ordered.
C17_StudyShowsCurrent ==
    (/\ lastOp # "init"
     /\ storageMode = "ok"
     /\ page.mode = "study"
     /\ ValidStored(studyRaw)
     /\ Len(studyRaw.order) > 0
     /\ ~studyRaw.completed) =>
        page.currentSlug = At(studyRaw.order, studyRaw.index)

\* C18 (SpecStudy): with working storage and a valid stored progress that is
\* not completed, of index i and order length L, advanceStudy() returns a
\* progress with index min(i + 1, L - 1), completed exactly when i + 1 >= L,
\* and the order and region that were stored, and the stored value
\* afterwards is the returned progress.
C18_AdvanceStep ==
    (/\ lastOp = "advanceStudy" /\ storageMode = "ok"
     /\ ValidStored(prevRaw) /\ ~prevRaw.completed) =>
        /\ retProgress.index =
               IF prevRaw.index + 1 <= Len(prevRaw.order) - 1
               THEN prevRaw.index + 1 ELSE Len(prevRaw.order) - 1
        /\ retProgress.completed = (prevRaw.index + 1 >= Len(prevRaw.order))
        /\ retProgress.order = prevRaw.order
        /\ retProgress.region = prevRaw.region
        /\ studyRaw = stringify(retProgress)

\* An advance from the first card of a deck of two or more: index 1, not
\* completed
C18_Witness ==
    /\ lastOp = "advanceStudy" /\ storageMode = "ok"
    /\ ValidStored(prevRaw) /\ ~prevRaw.completed
    /\ prevRaw.index = 0 /\ Len(prevRaw.order) >= 2
    /\ retProgress.index = 1 /\ ~retProgress.completed

\* C6 (SpecSession): with storage unavailable, after a resetStudy() that
\* built a deck of length L >= 1 and k advanceStudy() calls, k < L,
\* currentStudySlug() returns order[k] of that deck, and the L-th
\* advanceStudy() returns completed.
C6_StorageUnavailable ==
    (/\ storageMode \in {"disabled", "nowindow"}
     /\ advances >= 0 /\ Len(resetRet.order) >= 1) =>
        /\ (lastOp = "currentStudySlug" /\ advances < Len(resetRet.order)) =>
               retSlug = resetRet.order[advances + 1]
        /\ (lastOp = "advanceStudy" /\ advances >= Len(resetRet.order)) =>
               retProgress.completed

\* C7 (SpecStudy): loadStudy() on a malformed stored value returns a fresh
\* progress for region "all" (index 0, completed iff the deck is empty) and
\* stores it in place of the malformed value.
C7_MalformedStorage ==
    (lastOp = "loadStudy" /\ storageMode = "ok" /\ Malformed(prevRaw)) =>
        /\ retProgress = Fresh("all")
        /\ studyRaw = stringify(retProgress)

C7_Witness ==
    /\ lastOp = "loadStudy"
    /\ storageMode = "ok"
    /\ prevRaw.kind = "object"
    /\ ~prevRaw.indexIsNumber
    /\ Len(retProgress.order) >= 2
    /\ studyRaw # prevRaw

\* C8 as stated (SpecDeck): the deck for R holds exactly the slugs of the
\* entries whose region tag equals R (every entry for "all"), each once.
MatchingAsStated(region) ==
    {i \in 1..Len(catalog) : region = "all" \/ catalog[i].region = region}

C8_DeckPermutationAsStated ==
    lastOp = "buildDeck" =>
        /\ Range(retDeck) = {catalog[i].slug : i \in MatchingAsStated(argRegion)}
        /\ NoDuplicates(retDeck)
        /\ Len(retDeck) = Cardinality(MatchingAsStated(argRegion))

\* C8 (SpecDeck), amended: the deck for R holds exactly the slugs of the
\* entries whose region tag equals R when letter case is ignored (every entry
\* for "all"), each once; untagged entries are in the "all" deck only.
SameIgnoringCase(tag, region) == tag = region \/ (tag = "Upper" /\ region = "upper")

Matching(region) ==
    {i \in 1..Len(catalog) :
        region = "all" \/ SameIgnoringCase(catalog[i].region, region)}

C8_DeckPermutation ==
    lastOp = "buildDeck" =>
        /\ Range(retDeck) = {catalog[i].slug : i \in Matching(argRegion)}
        /\ NoDuplicates(retDeck)
        /\ Len(retDeck) = Cardinality(Matching(argRegion))
        /\ \A i \in 1..Len(catalog) :
               (catalog[i].region = NoRegion /\ argRegion # "all") =>
                   catalog[i].slug \notin Range(retDeck)

C8_Witness ==
    /\ lastOp = "buildDeck"
    /\ argRegion = "upper"
    /\ Len(retDeck) = 2
    /\ Len(catalog) = 3
    /\ \E i \in 1..Len(catalog) : catalog[i].region = NoRegion
    /\ \E i \in 1..Len(catalog) : catalog[i].region = "Upper"
    /\ retDeck # getSlugsByRegion(catalog, "upper")

\* C9 (SpecStudy): setStudyRegion(N) on a persisted progress of another
\* region returns and persists a fresh progress for N: region N, index 0,
\* completed iff the deck is empty, order a freshly built deck for N.
C9_RegionSwitchResets ==
    (/\ lastOp = "setStudyRegion" /\ storageMode = "ok"
     /\ ValidStored(prevRaw) /\ prevRaw.region # argRegion) =>
        /\ retProgress = Fresh(argRegion)
        /\ studyRaw = stringify(retProgress)

C9_Witness ==
    /\ lastOp = "setStudyRegion" /\ storageMode = "ok"
    /\ ValidStored(prevRaw) /\ prevRaw.region # argRegion
    /\ prevRaw.index > 0 /\ prevRaw.completed
    /\ Len(retProgress.order) >= 2

\* C10 (SpecStudy): setStudyRegion(C) on a persisted valid progress of region
\* C returns that progress and leaves the stored value as it was.
C10_RegionNoOp ==
    (/\ lastOp = "setStudyRegion" /\ CanRead
     /\ ValidStored(prevRaw) /\ prevRaw.region = argRegion) =>
        /\ retProgress = parse(prevRaw)
        /\ studyRaw = prevRaw

C10_Witness ==
    /\ lastOp = "setStudyRegion" /\ storageMode = "ok"
    /\ ValidStored(prevRaw) /\ prevRaw.region = argRegion
    /\ prevRaw.index > 0
    /\ retProgress.index = prevRaw.index
    /\ buildDeck(argRegion) # prevRaw.order

\* C19 (SpecStudy): with working storage, resetStudy(R) from whichever stored
\* value (in progress, completed, absent, malformed) returns a progress whose
\* order is the deck built for R, with index 0, completed exactly when the
\* order is empty and region R, and the stored value afterwards is the
\* returned progress.
C19_Reset ==
    (lastOp = "resetStudy" /\ storageMode = "ok") =>
        /\ retProgress.order = buildDeck(argRegion)
        /\ Range(retProgress.order) = {catalog[i].slug : i \in Matching(argRegion)}
        /\ retProgress.index = 0
        /\ retProgress.completed = (Len(retProgress.order) = 0)
        /\ retProgress.region = argRegion
        /\ studyRaw = stringify(retProgress)

\* A reset to a region from a stored progress that was completed
C19_Witness ==
    /\ lastOp = "resetStudy" /\ storageMode = "ok"
    /\ ValidStored(prevRaw) /\ prevRaw.completed /\ prevRaw.index > 0
    /\ argRegion = "upper" /\ prevRaw.region # "upper"
    /\ Len(retProgress.order) >= 1
    /\ ~retProgress.completed
    /\ studyRaw # prevRaw

\* The progress currentStudySlug() works on: what loadStudy() gives for the
\* stored value found
C20_Loaded == loadStudy(prevRaw).ret

\* C20 (SpecStudy): currentStudySlug() returns null exactly when the loaded
\* deck is empty or completed; otherwise it returns order[index], a slug of
\* the loaded order; and a valid stored progress that can be read is left as
\* it was.
C20_CurrentSlug ==
    lastOp = "currentStudySlug" =>
        /\ (retSlug = NoSlug) <=>
               (Len(C20_Loaded.order) = 0 \/ C20_Loaded.completed)
        /\ retSlug # NoSlug =>
               /\ C20_Loaded.index \in 0..(Len(C20_Loaded.order) - 1)
               /\ retSlug = C20_Loaded.order[C20_Loaded.index + 1]
        /\ (CanRead /\ ValidStored(prevRaw)) => studyRaw = prevRaw

\* The stored value is what a reset wrote for a region that matches no
\* entry, or nothing valid can be read and the catalog is empty
C21_EmptyLoaded ==
    \/ /\ CanRead /\ ValidStored(prevRaw)
       /\ Matching(prevRaw.region) = {}
       /\ parse(prevRaw) = FreshProgress(<<>>, prevRaw.region)
    \/ /\ ~(CanRead /\ ValidStored(prevRaw))
       /\ catalog = <<>>

\* C21 (SpecEngine): with an empty catalog getDailyMuscleSlug returns
\* "unknown"; resetStudy(R) for a region R that matches no entry returns
\* order <<>>, index 0, completed true; on the progress such a reset leaves,
\* currentStudySlug returns null and advanceStudy returns it unchanged, with
\* index 0, and leaves a readable stored value as it was.
C21_EmptyCatalog ==
    /\ (lastOp = "getDailyMuscleSlug" /\ catalog = <<>>) => retSlug = UnknownSlug
    /\ (lastOp = "resetStudy" /\ Matching(argRegion) = {}) =>
           /\ retProgress.order = <<>>
           /\ retProgress.index = 0
           /\ retProgress.completed
           /\ retProgress.region = argRegion
    /\ (lastOp = "currentStudySlug" /\ C21_EmptyLoaded) => retSlug = NoSlug
    /\ (lastOp = "advanceStudy" /\ C21_EmptyLoaded) =>
           /\ retProgress.order = <<>>
           /\ retProgress.index = 0
           /\ retProgress.completed
           /\ (CanRead /\ ValidStored(prevRaw)) =>
                  /\ retProgress = parse(prevRaw)
                  /\ studyRaw = prevRaw

\* An advance on the stored progress of a reset to a region without entries,
\* in a catalog that has entries
C21_Witness ==
    /\ lastOp = "advanceStudy" /\ storageMode = "ok"
    /\ catalog # <<>>
    /\ ValidStored(prevRaw) /\ prevRaw.region = "lower"
    /\ parse(prevRaw) = FreshProgress(<<>>, "lower")
    /\ retProgress.index = 0 /\ retProgress.completed

\* C22 (SpecStudy): the progress every operation returns, loadStudy() of an
\* arbitrary stored record included, has an order without duplicates that
\* holds exactly the catalog slugs matching its region.
C22_OrderInvariant ==
    lastOp \in {"loadStudy", "resetStudy", "setStudyRegion", "advanceStudy"} =>
        /\ NoDuplicates(retProgress.order)
        /\ Range(retProgress.order) =
               {catalog[i].slug : i \in Matching(retProgress.region)}

\* The deck a build for the region makes at moment c of the time line
C23_DeckAt(region, c) == seededShuffle(getSlugsByRegion(catalog, region), nowSeed(c))

\* C23 (SpecSession): the order resetStudy(R) returns is the order a build
\* for R makes at every moment of the same UTC date; a reset of a stored
\* progress that is in progress, whose order was built for its region
\* earlier on the same UTC date, returns that order again; and moments on
\* different UTC dates have different seeds.
C23_SameDayShuffle ==
    /\ lastOp = "resetStudy" =>
           /\ \A c \in 0..MaxClock :
                  UtcDate(c) = UtcDate(clock) =>
                      retProgress.order = C23_DeckAt(argRegion, c)
           /\ (/\ CanRead /\ ValidStored(prevRaw)
               /\ prevRaw.region = argRegion
               /\ prevRaw.index > 0 /\ ~prevRaw.completed
               /\ \E c \in 0..clock :
                      /\ UtcDate(c) = UtcDate(clock)
                      /\ prevRaw.order = C23_DeckAt(argRegion, c)) =>
                  retProgress.order = prevRaw.order
    /\ \A c \in 0..MaxClock :
           UtcDate(c) # UtcDate(clock) => nowSeed(c) # nowSeed(clock)

\* A reset, late on a UTC date, of a walk that is in progress on a shuffled
\* deck of two or more
C23_Witness ==
    /\ lastOp = "resetStudy" /\ storageMode = "ok"
    /\ clock > 0 /\ UtcDate(clock - 1) = UtcDate(clock)
    /\ ValidStored(prevRaw) /\ prevRaw.region = argRegion
    /\ prevRaw.index > 0 /\ ~prevRaw.completed
    /\ Len(prevRaw.order) >= 2
    /\ prevRaw.order # getSlugsByRegion(catalog, argRegion)
    /\ retProgress.order = prevRaw.order
    /\ retProgress.index = 0

\* The reference 32-bit FNV-1a, computed on its own: XOR of the low byte bit
\* by bit, and the product with 0x01000193 = 2^24 + 403 modulo 2^32
RECURSIVE C24_XorBits(_, _, _)
C24_XorBits(a, b, n) ==
    IF n = 0 THEN 0
    ELSE (((a % 2) + (b % 2)) % 2) + (2 * C24_XorBits(a \div 2, b \div 2, n - 1))

C24_Xor(h, code) ==
    <<h[1], ((h[2] \div 256) * 256) + C24_XorBits(h[2] % 256, code, 8)>>

C24_TimesPrime(h) ==
    <<((h[1] * 403) + ((h[2] * 403) \div 65536) + ((h[2] % 256) * 256)) % 65536,
      (h[2] * 403) % 65536>>

RECURSIVE C24_Reference(_, _)
C24_Reference(key, n) ==
    IF n = 0 THEN <<33052, 40389>>
    ELSE CHOOSE w \in {C24_TimesPrime(C24_Xor(h, key[n])) :
                          h \in {C24_Reference(key, n - 1)}} : TRUE

\* h % n of the 32-bit word h, byte by byte
C24_Remainder(h, n) ==
    ((((((((h[1] \div 256) % n) * 256) + (h[1] % 256)) % n) * 256
        + (h[2] \div 256)) % n) * 256 + (h[2] % 256)) % n

C24_Checked(key, h) ==
    /\ h = C24_Reference(key, Len(key))
    /\ h[1] \in 0..65535 /\ h[2] \in 0..65535
    /\ \A n \in 1..(MaxCatalog + 1) :
           /\ Mod32(h, n) = C24_Remainder(h, n)
           /\ Mod32(h, n) \in 0..(n - 1)

\* C24 (SpecDaily): for the date key of every date of the time line
\* hashDateKey is the reference FNV-1a of the key, an integer in [0, 2^32),
\* and hash % N lies in 0..N-1 for every catalog size N >= 1; the slug a
\* call returns is the catalog entry at the reference hash % N.
C24_HashAndIndex ==
    lastOp = "getDailyMuscleSlug" =>
        /\ \A d \in 1..Len(Days) :
               C24_Checked(FormatKey(Days[d]), hashDateKey(FormatKey(Days[d])))
        /\ Len(catalog) >= 1 =>
               retSlug =
                   catalog[C24_Remainder(C24_Reference(dateKey(clock), 10),
                                         Len(catalog)) + 1].slug

\* A call on the second date with three entries; among the hashes checked is
\* one with the top bit set, which Math.imul returns as a negative number
C24_Witness ==
    /\ lastOp = "getDailyMuscleSlug"
    /\ Len(catalog) = 3
    /\ clock = 2
    /\ retSlug = "s3"
    /\ \E d \in 1..Len(Days) : hashDateKey(FormatKey(Days[d]))[1] >= 32768

\* Other values the two storage keys could hold at this moment
C25_DailyRaws ==
    {DailyRawOf("absent"), DailyRawOf("scalar"),
     [kind |-> "object", date |-> nyDateKey(clock),
      slug |-> getDailyMuscleSlug(clock), score |-> 1, attempts |-> 1,
      completed |-> TRUE, typed |-> TRUE]}

C25_StudyRaws ==
    {RawAbsent, RawOf("badjson"), [BaseRaw EXCEPT !.completed = TRUE]}

C25_WithDaily(d) == [World EXCEPT !.dailyRaw = d]
C25_WithStudy(raw) == [World EXCEPT !.studyRaw = raw]

\* What a step of the page leaves in state and in the study key
C25_StudySide(w) == <<w.studyRaw, w.study, w.region, w.currentSlug>>
\* ... and in the daily key
C25_DailySide(w) == <<w.dailyRaw, w.dailyStats>>

\* The page's calls of the study engine leave the daily key alone and give
\* the same result whatever the daily key holds
C25_EngineBlind ==
    /\ nextMuscle(World, World, 1).dailyRaw = dailyRaw
    /\ resetClick(World, World).dailyRaw = dailyRaw
    /\ RegionEffect(World, World).dailyRaw = dailyRaw
    /\ InitStudyEffect(World, World).dailyRaw = dailyRaw
    /\ LoadRegionEffect(World, World).dailyRaw = dailyRaw
    /\ page.mode = "study" => ModeEffect(World, World, 1).dailyRaw = dailyRaw
    /\ \A d \in C25_DailyRaws :
           /\ C25_StudySide(nextMuscle(C25_WithDaily(d), C25_WithDaily(d), 1))
                  = C25_StudySide(nextMuscle(World, World, 1))
           /\ C25_StudySide(resetClick(C25_WithDaily(d), C25_WithDaily(d)))
                  = C25_StudySide(resetClick(World, World))
           /\ C25_StudySide(RegionEffect(C25_WithDaily(d), C25_WithDaily(d)))
                  = C25_StudySide(RegionEffect(World, World))
           /\ C25_StudySide(InitStudyEffect(C25_WithDaily(d), C25_WithDaily(d)))
                  = C25_StudySide(InitStudyEffect(World, World))
           /\ C25_StudySide(LoadRegionEffect(C25_WithDaily(d), C25_WithDaily(d)))
                  = C25_StudySide(LoadRegionEffect(World, World))
           /\ page.mode = "study" =>
                  C25_StudySide(ModeEffect(C25_WithDaily(d), C25_WithDaily(d), 1))
                      = C25_StudySide(ModeEffect(World, World, 1))

\* The daily tracker's steps leave the study key alone and give the same
\* result whatever the study key holds
C25_DailyBlind ==
    /\ EnsureDailyEffect(World, World).studyRaw = studyRaw
    /\ \A raw \in C25_StudyRaws :
           C25_DailySide(EnsureDailyEffect(C25_WithStudy(raw), C25_WithStudy(raw)))
               = C25_DailySide(EnsureDailyEffect(World, World))
    /\ page.mode = "daily" =>
           /\ submit(World, World, "wrong").studyRaw = studyRaw
           /\ submit(World, World, "right").studyRaw = studyRaw
           /\ reveal(World, World).studyRaw = studyRaw
           /\ \A raw \in C25_StudyRaws :
                  /\ C25_DailySide(submit(C25_WithStudy(raw), C25_WithStudy(raw), "wrong"))
                         = C25_DailySide(submit(World, World, "wrong"))
                  /\ C25_DailySide(submit(C25_WithStudy(raw), C25_WithStudy(raw), "right"))
                         = C25_DailySide(submit(World, World, "right"))
                  /\ C25_DailySide(reveal(C25_WithStudy(raw), C25_WithStudy(raw)))
                         = C25_DailySide(reveal(World, World))

\* C25 (SpecDailyPage): an event that leaves the page in daily mode (a guess
\* or a reveal in daily mode, the choice of daily mode) leaves the stored
\* study progress as it was; every event other than one in daily mode (next,
\* reset, a region switch, a mode switch, a guess or reveal in study mode)
\* leaves the stored daily record as it was; and in every state the page's
\* calls of the study engine neither change nor depend on the daily key, and
\* the steps of the daily tracker (ensure today, attempt, correct, reveal)
\* neither change nor depend on the study key.
C25_StoragePartition ==
    /\ [][/\ (lastOp' = "event" /\ page'.mode = "daily") => studyRaw' = studyRaw
          /\ (lastOp' = "event" /\ ~(page.mode = "daily" /\ page'.mode = "daily")) =>
                 dailyRaw' = dailyRaw]_vars
    /\ [](C25_EngineBlind /\ C25_DailyBlind)

\* A correct guess in daily mode has written the daily record while a study
\* deck with its index advanced is stored
C25_Witness ==
    /\ page.mode = "daily" /\ storageMode = "ok"
    /\ dailyRaw.kind = "object" /\ dailyRaw.completed /\ dailyRaw.score = 1
    /\ ValidStored(studyRaw) /\ studyRaw.index > 0

\* A normalized string: lower-case letters and digits in words separated by
\* single spaces
C26_Normal(n) ==
    /\ \A i \in 1..Len(n) : n[i] \in {"a", "b", " "}
    /\ n # <<>> => (n[1] # " " /\ n[Len(n)] # " ")
    /\ \A i \in 1..(Len(n) - 1) : ~(n[i] = " " /\ n[i + 1] = " ")

\* C26 (SpecMatch): isMatch(input, entry) is true exactly when the normalized
\* input is not empty and is the normalized form of the entry's name, slug
\* or one of its accepted answers; an input of spaces and punctuation only
\* never matches; and every input with the same normalized form gets the
\* same result.
C26_Matcher ==
    lastOp = "isMatch" =>
        /\ C26_Normal(norm(match.input))
        /\ match.result =
               /\ norm(match.input) # <<>>
               /\ \/ norm(match.input) = norm(match.entry.name)
                  \/ norm(match.input) = norm(match.entry.slug)
                  \/ \E i \in 1..Len(match.entry.accepted) :
                         norm(match.input) = norm(match.entry.accepted[i])
        /\ (\A i \in 1..Len(match.input) : match.input[i] \in {" ", "-"}) =>
               ~match.result
        /\ \A other \in Inputs :
               norm(other) = norm(match.input) =>
                   isMatch(other, match.entry) = match.result

\* "-áb" matches the entry whose accepted answer is "ab"
C26_Witness ==
    /\ lastOp = "isMatch"
    /\ match.input = <<"-", "á", "b">>
    /\ match.entry.slug = <<"a", "-", "b">>
    /\ norm(match.input) = <<"a", "b">>
    /\ match.result

\* C27 (SpecStudy): loadStudy() of a stored record that carries a field which
\* is not part of StudyProgress treats the record as absent: it returns a
\* freshly initialized progress for "all".
C27_ExtraFieldRejected ==
    (/\ lastOp = "loadStudy" /\ CanRead
     /\ prevRaw.kind = "object" /\ prevRaw.extra) =>
        retProgress = Fresh("all")

\* The records an attempt, a correct guess and a reveal make of the record d
\* a tab holds
C28_Updates(d) ==
    {[d EXCEPT !.attempts = d.attempts + 1],
     [d EXCEPT !.score = d.score + 1, !.completed = TRUE],
     [d EXCEPT !.attempts = d.attempts + 1, !.completed = TRUE]}

\* C28 (SpecTabs): every step that changes the stored daily record is the
\* step of one tab and leaves in storage the whole record that tab holds
\* afterwards; for a guess or a reveal that record is made from the copy the
\* tab held before the step, whatever the other tab had stored meanwhile.
C28_LastWriteWins ==
    [][dailyRaw' # dailyRaw =>
          \E t \in Tabs :
              /\ \A u \in Tabs \ {t} : page'[u] = page[u]
              /\ dailyRaw' = stringifyDaily(page'[t].dailyStats)
              /\ lastOp' = "event" =>
                     dailyRaw' \in {stringifyDaily(x) :
                                       x \in C28_Updates(page[t].dailyStats)}]_vars

\* The first tab has completed the day and stored it; the second tab's wrong
\* guess, made from its older copy, has put a record in storage that is not
\* completed
C28_Witness ==
    /\ storageMode = "ok"
    /\ page[1].dailyStats.completed
    /\ page[2].dailyStats = [page[1].dailyStats EXCEPT
                                !.score = 0, !.attempts = 1, !.completed = FALSE]
    /\ dailyRaw = stringifyDaily(page[2].dailyStats)
    /\ page[1].dailyStats.score = 1

\* Storage holds a record of today's date and slug of which the score, the
\* attempts or the completed flag is missing or of another type
C29_HoldsMalformed == C11_HoldsToday /\ ~dailyRaw.typed

\* C29 (SpecDaily): a page load that finds a stored daily record of today's
\* date and today's slug with a missing or wrongly typed score, attempts or
\* completed field treats it as absent: the record in use after the load is
\* the fresh zeroed record of today, with a numeric score, numeric attempts
\* and a boolean completed.
C29_MalformedReplaced ==
    [][(lastOp' = "load" /\ C29_HoldsMalformed) =>
           /\ page'.dailyStats = C11_Fresh
           /\ page'.dailyStats.typed]_vars

\* The daily selector's result for the date of the key
C30_SlugFor(key) ==
    IF Len(catalog) = 0 THEN UnknownSlug
    ELSE catalog[Mod32(hashDateKey(key), Len(catalog)) + 1].slug

\* C30 (SpecMidnight): in every daily record that a page load creates and
\* persists, slug is the daily selector's result for the record's own date,
\* also when midnight New York time falls between the page's read of the date
\* and the selector's read.
C30_DateAndSlug ==
    [][(lastOp' = "load" /\ dailyRaw' # dailyRaw) =>
           dailyRaw'.slug = C30_SlugFor(dailyRaw'.date)]_vars

\* C31 (SpecCalls): a call of nextMuscle while the page is in daily mode
\* changes nothing: the current slug, the stored study progress, the daily
\* record in use and in storage, and what the viewer shows and was last asked
\* to show all stay as they were.
C31_NoSkipInDaily ==
    [][(page.mode = "daily" /\ lastOp' = "nextMuscle") =>
           /\ page' = page
           /\ studyRaw' = studyRaw
           /\ dailyRaw' = dailyRaw]_vars

\* nextMuscle was called in daily mode while the stored deck had a next entry
C31_Witness ==
    /\ lastOp = "nextMuscle"
    /\ page.mode = "daily"
    /\ page.currentSlug # NoSlug
    /\ storageMode = "ok"
    /\ ValidStored(studyRaw)
    /\ ~studyRaw.completed
    /\ studyRaw.index + 1 < Len(studyRaw.order)

\* C32 (SpecPage): while the page is in free mode, no next, submit (empty,
\* wrong or correct) or reveal event, nor any other event that leaves the
\* page in free mode, changes the stored study progress or the stored daily
\* record.
C32_FreeLeavesStorage ==
    [][(page.mode = "free" /\ page'.mode = "free" /\ lastOp' = "event") =>
           /\ studyRaw' = studyRaw
           /\ dailyRaw' = dailyRaw]_vars

\* A correct guess was made in free mode while both keys held a record
C32_Witness ==
    /\ lastOp = "event"
    /\ page.mode = "free"
    /\ page.status = "correct"
    /\ ~page.canReveal
    /\ storageMode = "ok"
    /\ ValidStored(studyRaw)
    /\ dailyRaw.kind = "object"

\* The mode switcher puts the page in study mode while working storage holds
\* a valid deck of the selected region
C33_Entering ==
    /\ lastOp' = "event"
    /\ page.mode # "study"
    /\ page'.mode = "study"
    /\ storageMode = "ok"
    /\ ValidStored(studyRaw)
    /\ studyRaw.region = page.region

C33_InProgress == Len(studyRaw.order) > 0 /\ ~studyRaw.completed

\* C33 (SpecPage): when the page is switched to study mode while the stored
\* deck of the selected region is in progress, order, index and completed
\* stay as stored and the current slug is order[index]; when the stored deck
\* is completed or empty, storage and the page's study progress hold the
\* freshly reset deck of the region at index 0, and the current slug is its
\* first entry when it has one.
C33_EnterStudy ==
    [][C33_Entering =>
           IF C33_InProgress
           THEN /\ studyRaw' = studyRaw
                /\ page'.currentSlug = At(studyRaw.order, studyRaw.index)
                /\ page'.currentSlug # NoSlug
           ELSE /\ studyRaw' = stringify(FreshProgress(buildDeck(page.region), page.region))
                /\ SameProgress(page'.study, parse(studyRaw'))
                /\ studyRaw'.index = 0
                /\ Len(studyRaw'.order) > 0 => page'.currentSlug = studyRaw'.order[1]]_vars

\* Study mode was entered and the deck restarted: a reshuffled deck at index 0
\* whose first entry is shown
C33_Witness ==
    /\ lastOp = "event"
    /\ page.mode = "study"
    /\ storageMode = "ok"
    /\ ValidStored(studyRaw)
    /\ studyRaw.index = 0
    /\ Len(studyRaw.order) >= 2
    /\ page.currentSlug = studyRaw.order[1]
    /\ page.canReveal
    /\ page.status = "idle"
    /\ page.studyStats.attempts = 1

\* The step is a submit that the panel processes: there is an entry, the
\* status is neither correct nor revealed, and the trimmed guess is not empty
C34_Processed ==
    /\ lastOp' \in {"submitWrong", "submitRight"}
    /\ HasEntry(page.currentSlug)
    /\ page.status \notin {"correct", "revealed"}

\* The callbacks of the page in study mode count what the panel emits: the
\* page's submit sets the panel's status, adds one attempt for each onAttempt
\* and one to the score for each onCorrect
C34_Count(emitted, name) == Cardinality({i \in 1..Len(emitted) : emitted[i] = name})

C34_PageAgrees(guess) ==
    /\ submit(page, page, guess).status = panelSubmit(page, guess).status
    /\ submit(page, page, guess).studyStats.attempts =
           page.studyStats.attempts
           + C34_Count(panelSubmit(page, guess).calls, "onAttempt(correct)")
           + C34_Count(panelSubmit(page, guess).calls, "onAttempt(wrong)")
    /\ submit(page, page, guess).studyStats.score =
           page.studyStats.score + C34_Count(panelSubmit(page, guess).calls, "onCorrect")

C34_IsSubmit == lastOp' \in {"submitEmpty", "submitWrong", "submitRight"}

\* C34 (SpecPanel): a processed submit emits exactly one onAttempt, first,
\* and a right guess emits onCorrect directly after onAttempt("correct") and
\* nothing else does; a submit with no entry, with an empty trimmed guess, or
\* with status correct or revealed emits nothing and leaves the panel as it
\* was; from a status of correct or revealed no step emits anything while the
\* current slug stays; reveal() emits nothing and leaves status correct.
C34_CallbackProtocol ==
    [][/\ C34_Processed =>
              IF lastOp' = "submitRight"
              THEN calls' = <<"onAttempt(correct)", "onCorrect">> /\ page'.status = "correct"
              ELSE calls' = <<"onAttempt(wrong)">> /\ page'.status = "wrong"
       /\ (C34_IsSubmit /\ ~C34_Processed) => (calls' = <<>> /\ page' = page)
       /\ (page.status \in {"correct", "revealed"} /\ page'.currentSlug = page.currentSlug) =>
              calls' = <<>>
       /\ lastOp' = "reveal" =>
              /\ calls' = <<>>
              /\ page.status = "correct" => page'.status = "correct"]_vars
    /\ [](\A guess \in Guesses : C34_PageAgrees(guess))

\* A right guess was processed and both callbacks were emitted
C34_Witness ==
    /\ lastOp = "submitRight"
    /\ page.status = "correct"
    /\ calls = <<"onAttempt(correct)", "onCorrect">>

\* The step resets the study deck: the Reset Study button, or a change of the
\* stored progress or of the selected region
C35_DeckReset == ClickReset \/ studyRaw' # studyRaw \/ page'.region # page.region

\* C35 (SpecPage): once the entry on display was revealed or guessed
\* correctly and reveal is locked, reveal stays without effect (canReveal
\* stays false, so that no further reveal is counted as an attempt) through
\* every event that leaves the current slug as it was and does not reset the
\* study deck.
C35_RevealOnce ==
    [][(/\ page.status \in {"correct", "revealed"}
        /\ ~page.canReveal
        /\ storageMode = "ok"
        /\ lastOp' = "event"
        /\ page'.currentSlug = page.currentSlug
        /\ ~C35_DeckReset) => ~page'.canReveal]_vars

C36_Stats(a, s) == page'.studyStats = [attempts |-> page.studyStats.attempts + a,
                                       score |-> page.studyStats.score + s]

\* C36 (SpecStats): in study mode the session's statistics keep
\* 0 <= score <= attempts; a wrong guess adds 1 to attempts and nothing to
\* score, a correct guess adds 1 to each, an empty guess adds nothing, a
\* reveal adds 1 to attempts, Next leaves both as they are and Reset Study
\* sets both to 0.
C36_StudyStatistics ==
    /\ [](/\ page.studyStats.score \in 0..page.studyStats.attempts
          /\ page.mode = "study")
    /\ [][/\ lastOp' = "submitWrong" => C36_Stats(1, 0)
          /\ lastOp' = "submitRight" => C36_Stats(1, 1)
          /\ lastOp' = "submitEmpty" => C36_Stats(0, 0)
          /\ lastOp' = "reveal" => C36_Stats(1, 0)
          /\ ClickNext => C36_Stats(0, 0)
          /\ ClickReset => page'.studyStats = [attempts |-> 0, score |-> 0]]_vars

\* A wrong guess, a reveal and then a correct guess on the next entry
C36_Witness ==
    /\ lastOp = "submitRight"
    /\ page.studyStats = [attempts |-> 3, score |-> 1]
    /\ page.status = "correct"

\* C37 (SpecStudy): with working storage, after resetStudy, setStudyRegion
\* and advanceStudy the value stored under the study key is the progress the
\* operation returned, and a loadStudy() called next returns that progress
\* and leaves storage as it is.
C37_ReturnedIsStored ==
    (storageMode = "ok" /\ lastOp \in {"resetStudy", "setStudyRegion", "advanceStudy"}) =>
        /\ studyRaw = stringify(retProgress)
        /\ loadStudy(studyRaw).ret = retProgress
        /\ loadStudy(studyRaw).raw = studyRaw

\* advanceStudy took a stored deck from its first entry to its second
C37_Witness ==
    /\ storageMode = "ok"
    /\ lastOp = "advanceStudy"
    /\ ValidStored(prevRaw)
    /\ prevRaw.index = 0
    /\ retProgress.index = 1
    /\ ~retProgress.completed
    /\ studyRaw # prevRaw

\* C38 (SpecTabsStudy): with working storage, after n advanceStudy() calls
\* made by the two tabs in any order on a stored deck of length L >= 1 at
\* index 0, storage holds that deck at index min(n, L - 1) with completed
\* exactly when n >= L: no call of either tab is lost, and the calls made
\* from a deck at index i count on from i.
C38_NoLostAdvance ==
    (storageMode = "ok" /\ advances >= 0 /\ Len(resetRet.order) >= 1) =>
        /\ ValidStored(studyRaw)
        /\ Persisted.order = resetRet.order
        /\ Persisted.region = resetRet.region
        /\ Persisted.index = Min(resetRet.index + advances, Len(resetRet.order) - 1)
        /\ Persisted.completed = (resetRet.index + advances >= Len(resetRet.order))

\* Both tabs clicked Next in turn, the second click from a tab whose own copy
\* of the progress was one advance behind
C38_Witness ==
    /\ storageMode = "ok"
    /\ lastOp = "next"
    /\ advances = 2
    /\ Len(resetRet.order) >= 3
    /\ Persisted.index = 2
    /\ page[1].mounted /\ page[2].mounted
    /\ page[1].study.index = 1
    /\ page[2].study.index = 2

====
